---- MODULE Spec2Model ----
(***************************************************************************)
(* Model of the Sonicarbi execution pipeline: the circuit breaker and the  *)
(* ArbitrageExecutor of src/src/executor.py, the submission layer of       *)
(* src/utils/private_mempool.py, the scanner of src/src/scanner.py, and    *)
(* the price fetchers, oracle and rate limiter of src/utils.               *)
(*                                                                         *)
(* Time is an integer number of seconds (datetime.now()).  Absent values   *)
(* (Python None) are the empty tuple; a present timestamp t is <<t>>.      *)
(***************************************************************************)
EXTENDS Integers, Sequences, FiniteSets, TLC

VARIABLES
    now,              \* the wall clock, datetime.now(), in seconds
    cb,               \* CircuitBreaker: [failures, tripped_at]
    stats,            \* ArbitrageExecutor.stats
    pc,               \* per coroutine of evaluate_and_execute: where it is suspended
    frame,            \* per coroutine: the locals it holds while suspended
    log,              \* per coroutine: what the call in flight has run so far
    last,             \* the most recently completed evaluate_and_execute call
    dry_run,          \* ArbitrageExecutor.dry_run
    telegram,         \* NotificationManager.telegram is not None
    private_mempool,  \* ArbitrageExecutor.private_mempool (None in dry run)
    history,          \* every time record_failure was called on cb, in order
    fresh,            \* record_failure calls since the last record_success, up to max_failures
    sent,             \* the PrivateMempoolManager.send_transaction calls made, in order
    opportunities,    \* ScrollDEXScanner.opportunities
    effects,          \* what the scanner did with each opportunity: <<what, index>>
    calls,            \* the calls made on the scanner or the router, in order
    scan,             \* run_continuous_scan: its configuration, position and last scan_pair
    fetcher,          \* a GasPriceFetcher, ETHPriceFetcher or ChainlinkPriceOracle
    limiter           \* a RateLimiter, its waiters, and the clock time.time() reads

executor_vars == <<now, cb, stats, pc, frame, log, last, dry_run, telegram,
                   private_mempool, history, fresh, sent>>
scanner_vars == <<opportunities, effects, calls, scan, fetcher, limiter>>
vars == <<executor_vars, scanner_vars>>

None == <<>>

----------------------------------------------------------------------------
(* Bounds of the model *)

\* the clock advances in steps of TickStep seconds, up to MaxTime
TickStep == 150
MaxTime == 750
\* evaluate_and_execute is invoked at most MaxEvals times
MaxEvals == 6
\* record_failure is called at most MaxFailures times on a bare breaker
MaxFailures == 7

\* two callers evaluate at most MaxConcurrentEvals opportunities between them
MaxConcurrentEvals == 3
\* send_transaction is called at most MaxSends times on one manager
MaxSends == 2
\* run_continuous_scan makes at most MaxPairScans calls of scan_pair
MaxPairScans == 4

\* the notified executor's caller makes at most MaxNotifiedEvals calls
MaxNotifiedEvals == 2

\* the coroutines that may call evaluate_and_execute on one executor: the scan
\* loop's, and one more
Tasks == {"loop", "other"}

----------------------------------------------------------------------------
(* CircuitBreaker, src/src/executor.py *)

max_failures == 5
time_window == 300
cooldown == 600

CircuitBreaker__init == [failures |-> <<>>, tripped_at |-> None]

\* the list comprehension [f for f in self.failures if f > cutoff]
PruneInclusive(fs, cutoff) == SelectSeq(fs, LAMBDA f : f >= cutoff)
Prune(fs, cutoff) == SelectSeq(fs, LAMBDA f : f > cutoff)

record_failure(b, t) ==
    LET pruned == Prune(Append(b.failures, t), t - time_window)
    IN  [failures   |-> pruned,
         tripped_at |-> IF Len(pruned) >= max_failures THEN <<t>> ELSE b.tripped_at]

record_success_kept(b) == b
record_success(b) ==
    IF b.failures # <<>> THEN [b EXCEPT !.failures = <<>>] ELSE b

\* is_tripped both answers and, after the cooldown, resets the breaker
is_tripped_late(b, t) ==
    IF b.tripped_at = None
    THEN [ret |-> FALSE, cb |-> b]
    ELSE IF t - b.tripped_at[1] > cooldown
         THEN [ret |-> FALSE, cb |-> [failures |-> <<>>, tripped_at |-> None]]
         ELSE [ret |-> TRUE, cb |-> b]
is_tripped(b, t) ==
    IF b.tripped_at = None
    THEN [ret |-> FALSE, cb |-> b]
    ELSE IF t - b.tripped_at[1] >= cooldown
         THEN [ret |-> FALSE, cb |-> [failures |-> <<>>, tripped_at |-> None]]
         ELSE [ret |-> TRUE, cb |-> b]

Max(a, b) == IF a >= b THEN a ELSE b

get_status(b, t) ==
    IF b.tripped_at # None
    THEN [status |-> "tripped", failures |-> Len(b.failures),
          cooldown_remaining_seconds |-> Max(0, cooldown - (t - b.tripped_at[1]))]
    ELSE [status |-> "operational", failures |-> Len(b.failures),
          max_failures |-> max_failures]

----------------------------------------------------------------------------
(* PrivateMempoolManager, src/utils/private_mempool.py *)

\* a provider: its name and its enabled flag (is_available returns enabled)
FlashbotsProvider(rpc_url) == [name |-> "Flashbots", enabled |-> rpc_url]
PrivateRPCProvider(rpc_url) == [name |-> "PrivateRPC", enabled |-> rpc_url]
StandardMempoolProvider == [name |-> "StandardMempool", enabled |-> TRUE]

is_available(p) == p.enabled

ProviderNames == {"Flashbots", "PrivateRPC", "StandardMempool"}

\* the transaction hash a provider returns when its send succeeds
TxHash(name) == <<"0x", name>>

\* what each provider's send_transaction would return if it were invoked:
\* a hash, or None (every provider turns its own exceptions into None)
SendOutcomes == [ProviderNames -> BOOLEAN]
Returned(outs, name) == IF outs[name] THEN TxHash(name) ELSE None

\* __init__(w3, prefer_private) with FLASHBOTS_RPC_URL / PRIVATE_RPC_URL set or not
PrivateMempoolManager__init_fallback_if_alone(flashbots_url, private_rpc_url, prefer) ==
    LET flashbots == FlashbotsProvider(flashbots_url)
        private_rpc == PrivateRPCProvider(private_rpc_url)
        l1 == IF is_available(flashbots) THEN <<flashbots>> ELSE <<>>
        l2 == IF is_available(private_rpc) THEN Append(l1, private_rpc) ELSE l1
    IN  [providers |-> IF l2 = <<>> THEN <<StandardMempoolProvider>> ELSE l2,
         prefer_private |-> prefer]
PrivateMempoolManager__init(flashbots_url, private_rpc_url, prefer) ==
    LET flashbots == FlashbotsProvider(flashbots_url)
        private_rpc == PrivateRPCProvider(private_rpc_url)
        l1 == IF is_available(flashbots) THEN <<flashbots>> ELSE <<>>
        l2 == IF is_available(private_rpc) THEN Append(l1, private_rpc) ELSE l1
    IN  [providers |-> Append(l2, StandardMempoolProvider), prefer_private |-> prefer]

Managers ==
    {PrivateMempoolManager__init(f, r, p) : f \in BOOLEAN, r \in BOOLEAN, p \in BOOLEAN}

\* the for loop of send_transaction from provider i on; invoked lists the
\* providers whose send_transaction has been called so far
RECURSIVE TryProviders(_, _, _, _, _)
TryProvidersNoStop(providers, i, retry_on_failure, outs, invoked) ==
    IF i > Len(providers)
    THEN [tx_hash |-> None, invoked |-> invoked]
    ELSE LET provider == providers[i]
             tx_hash == Returned(outs, provider.name)
             called == Append(invoked, provider.name)
         IN  IF ~is_available(provider)
             THEN TryProviders(providers, i + 1, retry_on_failure, outs, invoked)
             ELSE IF tx_hash # None /\ i = Len(providers)
                  THEN [tx_hash |-> tx_hash, invoked |-> called]
                  ELSE IF ~retry_on_failure /\ tx_hash = None
                       THEN [tx_hash |-> None, invoked |-> called]
                       ELSE TryProviders(providers, i + 1, retry_on_failure, outs, called)
TryProviders(providers, i, retry_on_failure, outs, invoked) ==
    IF i > Len(providers)
    THEN [tx_hash |-> None, invoked |-> invoked]
    ELSE LET provider == providers[i]
             tx_hash == Returned(outs, provider.name)
             called == Append(invoked, provider.name)
         IN  IF ~is_available(provider)
             THEN TryProviders(providers, i + 1, retry_on_failure, outs, invoked)
             ELSE IF tx_hash # None
                  THEN [tx_hash |-> tx_hash, invoked |-> called]
                  ELSE IF ~retry_on_failure
                       THEN [tx_hash |-> None, invoked |-> called]
                       ELSE TryProviders(providers, i + 1, retry_on_failure, outs, called)

StandardIndices(m) ==
    {i \in 1..Len(m.providers) : m.providers[i].name = "StandardMempool"}

send_transaction_falls_through(m, retry_on_failure, outs) ==
    IF ~m.prefer_private /\ StandardIndices(m) # {} /\ outs["StandardMempool"]
    THEN [tx_hash |-> Returned(outs, "StandardMempool"),
          invoked |-> <<"StandardMempool">>]
    ELSE TryProviders(m.providers, 1, retry_on_failure, outs, <<>>)
send_transaction(m, retry_on_failure, outs) ==
    IF ~m.prefer_private /\ StandardIndices(m) # {}
    THEN [tx_hash |-> Returned(outs, "StandardMempool"),
          invoked |-> <<"StandardMempool">>]
    ELSE TryProviders(m.providers, 1, retry_on_failure, outs, <<>>)

RECURSIVE FirstAvailable(_, _)
FirstAvailable(providers, i) ==
    IF i > Len(providers) THEN "None"
    ELSE IF is_available(providers[i]) THEN providers[i].name
         ELSE FirstAvailable(providers, i + 1)

get_active_provider(m) == FirstAvailable(m.providers, 1)

has_private_mempool(m) ==
    \E i \in 1..Len(m.providers) :
        is_available(m.providers[i]) /\ m.providers[i].name \in {"Flashbots", "PrivateRPC"}

----------------------------------------------------------------------------
(* Opportunities and configuration, src/config/config.py *)

\* config.PROFIT_THRESHOLD * 100 and profit_pct, in hundredths of a percent
PROFIT_THRESHOLD_PCT == 50

required_fields ==
    {"token_in", "token_out", "buy_dex", "sell_dex", "amount", "profit_pct", "profit_usd"}

\* the fields the "Evaluating opportunity" log line reads before validation
logged_fields == required_fields \ {"amount"}

\* the catalogue of dex_configs.json: data['scroll']['common_tokens'] and
\* data['scroll']['dexes'], lists of dicts
common_tokens == <<[symbol |-> "WETH"], [symbol |-> "USDC"], [symbol |-> "STONE"]>>
dex_list ==
    <<[name |-> "DexA", type |-> "uniswap_v2"], [name |-> "DexB", type |-> "concentrated"]>>

\* the executor keys both by name: self.tokens and self.dexes
tokens == {common_tokens[i].symbol : i \in 1..Len(common_tokens)}
dexes == {dex_list[i].name : i \in 1..Len(dex_list)}

GoodOpportunity ==
    [fields |-> required_fields, profit_pct |-> PROFIT_THRESHOLD_PCT,
     token_in |-> "WETH", token_out |-> "USDC", buy_dex |-> "DexA", sell_dex |-> "DexB"]

\* the opportunities handed to evaluate_and_execute
Opportunities ==
    {GoodOpportunity,
     [GoodOpportunity EXCEPT !.profit_pct = PROFIT_THRESHOLD_PCT - 1],
     [GoodOpportunity EXCEPT !.fields = required_fields \ {"amount"}],
     [GoodOpportunity EXCEPT !.fields = required_fields \ {"profit_usd"}],
     [GoodOpportunity EXCEPT !.token_out = "UNKNOWN"],
     [GoodOpportunity EXCEPT !.sell_dex = "UnknownDex"]}

\* what the slippage calculator answers: (is_valid, slippage_info)
SlippageAnswers ==
    {[is_valid |-> TRUE, info |-> TRUE], [is_valid |-> FALSE, info |-> TRUE],
     [is_valid |-> FALSE, info |-> FALSE]}

\* simulateArbitrage: a revert or RPC failure, or the simulated profit in USD
SimulatedProfits == {2}
SimulationAnswers == {None} \cup {<<p>> : p \in SimulatedProfits}

\* wait_for_transaction_receipt: a timeout, or a receipt with its status and the
\* gas cost in USD it leads to
GasCostsUsd == {1}
ReceiptAnswers ==
    {[timeout |-> TRUE, status |-> 0, gas_cost_usd |-> 0],
     [timeout |-> FALSE, status |-> 0, gas_cost_usd |-> 0]}
    \cup {[timeout |-> FALSE, status |-> 1, gas_cost_usd |-> g] : g \in GasCostsUsd}

----------------------------------------------------------------------------
(* ArbitrageExecutor, src/src/executor.py *)

ArbitrageExecutor__init_stats ==
    [total_opportunities_evaluated |-> 0, passed_validation |-> 0, executed |-> 0,
     successful |-> 0, failed |-> 0, total_profit_usd |-> 0, total_gas_spent_usd |-> 0]

\* the name of the exception _validate_opportunity raises, or "ok"
_validate_opportunity_strict(opp) ==
    IF ~(required_fields \subseteq opp.fields) THEN "ValueError"
    ELSE IF opp.profit_pct <= PROFIT_THRESHOLD_PCT THEN "InsufficientProfitError"
    ELSE IF opp.token_in \notin tokens \/ opp.token_out \notin tokens THEN "ValueError"
    ELSE IF opp.buy_dex \notin dexes \/ opp.sell_dex \notin dexes THEN "ValueError"
    ELSE "ok"
_validate_opportunity(opp) ==
    IF ~(required_fields \subseteq opp.fields) THEN "ValueError"
    ELSE IF opp.profit_pct < PROFIT_THRESHOLD_PCT THEN "InsufficientProfitError"
    ELSE IF opp.token_in \notin tokens \/ opp.token_out \notin tokens THEN "ValueError"
    ELSE IF opp.buy_dex \notin dexes \/ opp.sell_dex \notin dexes THEN "ValueError"
    ELSE "ok"

\* the exception _check_slippage raises on the calculator's answer, or "ok":
\* an invalid answer without a breakdown fails on slippage_info.get
_check_slippage(answer) ==
    IF answer.is_valid THEN "ok"
    ELSE IF answer.info THEN "SlippageExceededError" ELSE "AttributeError"

NoCall == [task |-> "none", result |-> "None", log |-> <<>>]

\* the state a step of a coroutine works on
Executor ==
    [cb |-> cb, stats |-> stats, pc |-> pc, frame |-> frame, log |-> log, last |-> last,
     fresh |-> fresh]

Commit(x) ==
    /\ cb' = x.cb
    /\ stats' = x.stats
    /\ pc' = x.pc
    /\ frame' = x.frame
    /\ log' = x.log
    /\ last' = x.last
    /\ fresh' = x.fresh
    /\ UNCHANGED <<now, dry_run, telegram, private_mempool, history, sent, scanner_vars>>

Logged(x, t, what) == [x EXCEPT !.log[t] = Append(@, what)]

\* last describes a call only in the state its return leads to
Suspend(x, t, at) == Commit([x EXCEPT !.pc[t] = at, !.last = NoCall])

\* the coroutine ends: evaluate_and_execute returns result
Return(x, t, result) ==
    Commit([x EXCEPT !.pc[t] = "idle", !.frame[t] = None, !.log[t] = <<>>,
                     !.last = [task |-> t, result |-> result, log |-> x.log[t]]])

Min(a, b) == IF a <= b THEN a ELSE b

\* self.circuit_breaker.record_failure(...) at the clock's present reading
RecordsFailure(x, t) ==
    Logged([x EXCEPT !.cb = record_failure(@, now),
                     !.fresh = Min(@ + 1, max_failures)], t, "record_failure")

\* self.circuit_breaker.record_success()
RecordsSuccess(x, t) ==
    Logged([x EXCEPT !.cb = record_success(@), !.fresh = 0], t, "record_success")

\* NotificationManager.send_error / send_execution: the alert goes to Telegram if
\* it is configured, and only then does the await suspend the coroutine
NotifierSuspends == telegram
send_error(x, t) ==
    IF telegram THEN Logged(Logged(x, t, "send_error"), t, "send_error_alert")
    ELSE Logged(x, t, "send_error")
send_execution(x, t) ==
    IF telegram THEN Logged(Logged(x, t, "send_execution"), t, "send_execution_alert")
    ELSE Logged(x, t, "send_execution")

\* return result, after self.stats['passed_validation'] += 1
EvaluateReturn(x, t, result) ==
    Return([x EXCEPT !.stats.passed_validation = @ + 1], t, result)

\* evaluate_and_execute: except CircuitBreakerTrippedError
ExceptTrippedCounted(x, t) ==
    Return(RecordsFailure(x, t), t, "None")
ExceptCircuitBreakerTripped(x, t) == Return(x, t, "None")

\* evaluate_and_execute: except Exception
ExceptException(x, t) ==
    LET y == send_error(RecordsFailure(x, t), t)
    IN  IF NotifierSuspends THEN Suspend(y, t, "notify_error")
        ELSE Return(y, t, "None")

\* _execute_arbitrage: except Exception, which ends in raise ExecutionError
ExecuteExcept(x, t) ==
    LET y == send_error(RecordsFailure([x EXCEPT !.stats.failed = @ + 1], t), t)
    IN  IF NotifierSuspends THEN Suspend(y, t, "notify_execute_error")
        ELSE ExceptException(Logged(y, t, "ExecutionError"), t)

\* _execute_arbitrage: receipt['status'] == 1
ReceiptSuccess(x, t, receipt) ==
    LET y == send_execution(RecordsSuccess(
                 [x EXCEPT !.stats.executed = @ + 1,
                           !.stats.successful = @ + 1,
                           !.stats.total_profit_usd = @ + x.frame[t][1],
                           !.stats.total_gas_spent_usd = @ + receipt.gas_cost_usd],
                 t), t)
    IN  IF NotifierSuspends THEN Suspend(y, t, "notify_execution")
        ELSE EvaluateReturn(y, t, "success")

\* _execute_arbitrage: any other receipt status
ReceiptRevertedRaises(x, t) ==
    ExecuteExcept(Logged([x EXCEPT !.stats.executed = @ + 1], t, "ExecutionError"), t)
ReceiptReverted(x, t) ==
    LET y == send_error(RecordsFailure(
                 [x EXCEPT !.stats.executed = @ + 1,
                           !.stats.failed = @ + 1],
                 t), t)
    IN  IF NotifierSuspends THEN Suspend(y, t, "notify_reverted")
        ELSE EvaluateReturn(y, t, "failed")

\* wait_for_transaction_receipt: it blocks, and may time out
WaitForReceipt(x, t) ==
    \E receipt \in ReceiptAnswers :
        LET y == Logged(x, t, "wait_for_receipt")
        IN  IF receipt.timeout THEN ExecuteExcept(Logged(y, t, "TimeExhausted"), t)
            ELSE IF receipt.status = 1 THEN ReceiptSuccess(y, t, receipt)
            ELSE ReceiptReverted(y, t)

\* after await self.private_mempool.send_transaction(...)
AfterSendUnchecked(x, t, tx_hash_hex) == WaitForReceipt(x, t)
AfterSend(x, t, tx_hash_hex) ==
    IF tx_hash_hex = None
    THEN ExecuteExcept(Logged(x, t, "ExecutionError"), t)
    ELSE WaitForReceipt(x, t)

\* every provider of the manager's list would return no hash
EveryProviderFails(m, outs) ==
    \A i \in 1..Len(m.providers) : Returned(outs, m.providers[i].name) = None

\* tx_hash_hex = await self.private_mempool.send_transaction(...) and what follows
\* it; the call's log notes when no provider of the list had a hash to return
SendThroughManager(x, t, outs) ==
    LET y == IF EveryProviderFails(private_mempool, outs)
             THEN Logged(x, t, "no_provider_sent") ELSE x
    IN  AfterSend(y, t, send_transaction(private_mempool, TRUE, outs).tx_hash)

\* the manager awaits the network only in FlashbotsProvider (aiohttp); the other
\* providers send through blocking web3 calls
SendSuspends ==
    /\ private_mempool.prefer_private
    /\ private_mempool.providers[1].name = "Flashbots"

\* _execute_arbitrage from the signed transaction on (private_mempool is set
\* whenever dry_run is off)
Submit(x, t) ==
    LET y == Logged(x, t, "send_transaction")
    IN  IF SendSuspends THEN Suspend(y, t, "send_transaction")
        ELSE \E outs \in SendOutcomes : SendThroughManager(y, t, outs)

\* __init__ sets self.account only when dry_run is off; without it
\* self.account.address raises inside the try
HasAccount == ~dry_run

\* _execute_arbitrage: build (reads the nonce), estimate gas (a failure is only
\* logged), sign
_execute_arbitrage(x, t) ==
    \E built \in (IF HasAccount THEN BOOLEAN ELSE {FALSE}) :
        LET y == Logged(x, t, "build_transaction")
        IN  IF ~built THEN ExecuteExcept(Logged(y, t, "Web3Exception"), t)
            ELSE Submit(Logged(y, t, "sign_transaction"), t)

\* evaluate_and_execute after the simulation: if self.dry_run
DryRunOrExecuteAlways(x, t) == _execute_arbitrage(x, t)
DryRunOrExecute(x, t) ==
    IF dry_run THEN EvaluateReturn(x, t, "simulated")
    ELSE _execute_arbitrage(x, t)

\* evaluate_and_execute: simulated_profit = await self._simulate_execution(opp)
Simulate(x, t) ==
    \E simulated \in SimulationAnswers :
        LET y == Logged(x, t, "simulate")
        IN  IF simulated = None
            THEN ExceptException(Logged(y, t, "ExecutionError"), t)
            ELSE DryRunOrExecute([y EXCEPT !.frame[t] = simulated], t)

\* evaluate_and_execute: await self._check_slippage(opp)
CheckSlippageSwallowed(x, t) ==
    \E answer \in SlippageAnswers :
        LET y == Logged(x, t, "check_slippage")
            raised == _check_slippage(answer)
        IN  Simulate(IF raised # "ok" THEN Logged(y, t, raised) ELSE y, t)
CheckSlippage(x, t) ==
    \E answer \in SlippageAnswers :
        LET y == Logged(x, t, "check_slippage")
            raised == _check_slippage(answer)
        IN  IF raised # "ok"
            THEN ExceptException(Logged(y, t, raised), t)
            ELSE Simulate(y, t)

\* evaluate_and_execute: the log line that reads the opportunity, then
\* self._validate_opportunity(opportunity)
Validate(x, t, opp) ==
    IF ~(logged_fields \subseteq opp.fields)
    THEN ExceptException(Logged(x, t, "KeyError"), t)
    ELSE LET y == Logged(x, t, "validate")
             raised == _validate_opportunity(opp)
         IN  IF raised # "ok"
             THEN ExceptException(Logged(y, t, raised), t)
             ELSE CheckSlippage(y, t)

\* evaluate_and_execute from its first line to the first await that suspends
evaluate_and_execute_on(t, given) ==
    /\ pc[t] = "idle"
    /\ stats.total_opportunities_evaluated < MaxEvals
    /\ LET check == is_tripped(cb, now)
           x == [Executor EXCEPT !.stats.total_opportunities_evaluated = @ + 1,
                                 !.cb = check.cb]
       IN  IF check.ret
           THEN ExceptCircuitBreakerTripped(Logged(x, t, "CircuitBreakerTrippedError"), t)
           ELSE \E opp \in given :
                    Validate(IF cb.tripped_at # None THEN Logged(x, t, "reset") ELSE x,
                             t, opp)

evaluate_and_execute(t) == evaluate_and_execute_on(t, Opportunities)

\* the awaited FlashbotsProvider request completes and send_transaction goes on
ResumeSend(t) ==
    /\ pc[t] = "send_transaction"
    /\ \E outs \in SendOutcomes : SendThroughManager(Executor, t, outs)

\* what the Bot API does with a sendMessage request: status 200, another
\* status, no answer within the timeout, or the connection fails
TelegramDeliveries == {"200", "api_error", "timeout", "client_error"}

\* TelegramNotifier.send_message: [raised, value, logged], logged the line it
\* writes to the log
send_message_timeout_raises(enabled, delivery) ==
    IF ~enabled THEN [raised |-> "no", value |-> FALSE, logged |-> "telegram_disabled"]
    ELSE IF delivery = "200"
    THEN [raised |-> "no", value |-> TRUE, logged |-> "telegram_sent"]
    ELSE IF delivery = "api_error"
    THEN [raised |-> "no", value |-> FALSE, logged |-> "telegram_api_error"]
    ELSE IF delivery = "timeout"
    THEN [raised |-> "TimeoutError", value |-> FALSE, logged |-> "telegram_timeout"]
    ELSE [raised |-> "no", value |-> FALSE, logged |-> "telegram_failed"]
send_message(enabled, delivery) ==
    IF ~enabled THEN [raised |-> "no", value |-> FALSE, logged |-> "telegram_disabled"]
    ELSE IF delivery = "200"
    THEN [raised |-> "no", value |-> TRUE, logged |-> "telegram_sent"]
    ELSE IF delivery = "api_error"
    THEN [raised |-> "no", value |-> FALSE, logged |-> "telegram_api_error"]
    ELSE IF delivery = "timeout"
    THEN [raised |-> "no", value |-> FALSE, logged |-> "telegram_timeout"]
    ELSE [raised |-> "no", value |-> FALSE, logged |-> "telegram_failed"]

\* send_error_alert and send_execution_alert: return await self.send_message(...)
\* inside try / except Exception, which returns False
send_alert(enabled, delivery) ==
    LET r == send_message(enabled, delivery)
    IN  IF r.raised # "no" THEN [r EXCEPT !.raised = "no", !.value = FALSE] ELSE r

\* NotificationManager.send_error / send_execution once the request is over:
\* the manager's notifier is enabled, and the value it returns is dropped. The
\* notifier's own log line is kept in the task's log when traced
AlertReturns(x, t, delivery, traced) ==
    LET r == send_alert(TRUE, delivery)
    IN  [x |-> IF traced THEN Logged(x, t, r.logged) ELSE x, raised |-> r.raised]

\* await self.notifier.send_error(...) of _execute_arbitrage's except returns;
\* an exception out of it would replace the ExecutionError
AwaitExecuteError(t, traced) ==
    /\ pc[t] = "notify_execute_error"
    /\ \E delivery \in TelegramDeliveries :
           LET r == AlertReturns(Executor, t, delivery, traced)
           IN  ExceptException(Logged(r.x, t, IF r.raised # "no" THEN r.raised
                                             ELSE "ExecutionError"), t)
ResumeExecuteError(t) == AwaitExecuteError(t, FALSE)

\* await self.notifier.send_execution(result) returns; the await is inside
\* _execute_arbitrage's try
AwaitExecution(t, traced) ==
    /\ pc[t] = "notify_execution"
    /\ \E delivery \in TelegramDeliveries :
           LET r == AlertReturns(Executor, t, delivery, traced)
           IN  IF r.raised # "no" THEN ExecuteExcept(Logged(r.x, t, r.raised), t)
               ELSE EvaluateReturn(r.x, t, "success")
ResumeExecution(t) == AwaitExecution(t, FALSE)

\* await self.notifier.send_error(...) of the reverted branch returns
AwaitReverted(t, traced) ==
    /\ pc[t] = "notify_reverted"
    /\ \E delivery \in TelegramDeliveries :
           LET r == AlertReturns(Executor, t, delivery, traced)
           IN  IF r.raised # "no" THEN ExecuteExcept(Logged(r.x, t, r.raised), t)
               ELSE EvaluateReturn(r.x, t, "failed")
ResumeReverted(t) == AwaitReverted(t, FALSE)

\* await self.notifier.send_error(...) of evaluate_and_execute's except returns;
\* an exception out of it would leave evaluate_and_execute
AwaitError(t, traced) ==
    /\ pc[t] = "notify_error"
    /\ \E delivery \in TelegramDeliveries :
           LET r == AlertReturns(Executor, t, delivery, traced)
           IN  Return(r.x, t, IF r.raised # "no" THEN "raised" ELSE "None")
ResumeError(t) == AwaitError(t, FALSE)

\* time passes
Tick ==
    /\ now + TickStep <= MaxTime
    /\ now' = now + TickStep
    /\ last' = NoCall
    /\ UNCHANGED <<cb, stats, pc, frame, log, dry_run, telegram,
                   private_mempool, history, fresh, sent, scanner_vars>>

\* no scanner runs beside the executor
NoScanner ==
    /\ opportunities = <<>>
    /\ effects = <<>>
    /\ calls = <<>>
    /\ scan = None
    /\ fetcher = None
    /\ limiter = None

\* ArbitrageExecutor.__init__: dry_run or live, with the manager a live executor builds
Init ==
    /\ now = 0
    /\ cb = CircuitBreaker__init
    /\ stats = ArbitrageExecutor__init_stats
    /\ pc = [t \in Tasks |-> "idle"]
    /\ frame = [t \in Tasks |-> None]
    /\ log = [t \in Tasks |-> <<>>]
    /\ last = NoCall
    /\ \/ /\ dry_run = TRUE
          /\ telegram = FALSE
          /\ private_mempool = None
       \/ /\ dry_run = FALSE
          /\ telegram = FALSE
          /\ private_mempool \in {PrivateMempoolManager__init(FALSE, FALSE, FALSE),
                                  PrivateMempoolManager__init(TRUE, FALSE, TRUE)}
       \/ /\ dry_run = FALSE
          /\ telegram = TRUE
          /\ private_mempool = PrivateMempoolManager__init(TRUE, TRUE, TRUE)
    /\ history = <<>>
    /\ fresh = 0
    /\ sent = <<>>
    /\ NoScanner

\* spec.md section 5: one caller, which awaits each evaluation before the next
Next ==
    \/ evaluate_and_execute("loop")
    \/ ResumeSend("loop")
    \/ ResumeExecuteError("loop")
    \/ ResumeExecution("loop")
    \/ ResumeReverted("loop")
    \/ ResumeError("loop")
    \/ Tick

Spec == Init /\ [][Next]_vars

\* a live executor whose NotificationManager has a Telegram notifier
InitNotify ==
    /\ now = 0
    /\ cb = CircuitBreaker__init
    /\ stats = ArbitrageExecutor__init_stats
    /\ pc = [t \in Tasks |-> "idle"]
    /\ frame = [t \in Tasks |-> None]
    /\ log = [t \in Tasks |-> <<>>]
    /\ last = NoCall
    /\ dry_run = FALSE
    /\ telegram = TRUE
    /\ private_mempool = PrivateMempoolManager__init(TRUE, TRUE, TRUE)
    /\ history = <<>>
    /\ fresh = 0
    /\ sent = <<>>
    /\ NoScanner

\* the caller of the notified executor makes at most MaxNotifiedEvals calls
NotifiedCall ==
    /\ stats.total_opportunities_evaluated < MaxNotifiedEvals
    /\ evaluate_and_execute("loop")

\* one caller, with each notification's outcome in its log
NextNotify ==
    \/ NotifiedCall
    \/ ResumeSend("loop")
    \/ AwaitExecuteError("loop", TRUE)
    \/ AwaitExecution("loop", TRUE)
    \/ AwaitReverted("loop", TRUE)
    \/ AwaitError("loop", TRUE)
    \/ Tick

SpecNotify == InitNotify /\ [][NextNotify]_vars

\* what the code allows: nothing in evaluate_and_execute keeps a second coroutine
\* from entering while the first is suspended at an await
ConcurrentCall(t) ==
    /\ stats.total_opportunities_evaluated < MaxConcurrentEvals
    /\ evaluate_and_execute(t)

NextConcurrent ==
    \/ \E t \in Tasks : ConcurrentCall(t)
    \/ \E t \in Tasks : ResumeSend(t)
    \/ \E t \in Tasks : ResumeExecuteError(t)
    \/ \E t \in Tasks : ResumeExecution(t)
    \/ \E t \in Tasks : ResumeReverted(t)
    \/ \E t \in Tasks : ResumeError(t)
    \/ Tick

SpecConcurrent == Init /\ [][NextConcurrent]_vars

----------------------------------------------------------------------------
(* A bare CircuitBreaker driven by record_failure calls *)

InitBreaker ==
    /\ now = 0
    /\ cb = CircuitBreaker__init
    /\ stats = ArbitrageExecutor__init_stats
    /\ pc = [t \in Tasks |-> "idle"]
    /\ frame = [t \in Tasks |-> None]
    /\ log = [t \in Tasks |-> <<>>]
    /\ last = NoCall
    /\ dry_run = TRUE
    /\ telegram = FALSE
    /\ private_mempool = None
    /\ history = <<>>
    /\ fresh = 0
    /\ sent = <<>>
    /\ NoScanner

RecordFailure ==
    /\ Len(history) < MaxFailures
    /\ cb' = record_failure(cb, now)
    /\ history' = Append(history, now)
    /\ UNCHANGED <<now, stats, pc, frame, log, last, dry_run, telegram,
                   private_mempool, fresh, sent, scanner_vars>>

NextBreaker == RecordFailure \/ Tick

SpecBreaker == InitBreaker /\ [][NextBreaker]_vars

----------------------------------------------------------------------------
(* A bare PrivateMempoolManager driven by send_transaction calls *)

InitMempool ==
    /\ now = 0
    /\ cb = CircuitBreaker__init
    /\ stats = ArbitrageExecutor__init_stats
    /\ pc = [t \in Tasks |-> "idle"]
    /\ frame = [t \in Tasks |-> None]
    /\ log = [t \in Tasks |-> <<>>]
    /\ last = NoCall
    /\ dry_run = FALSE
    /\ telegram = FALSE
    /\ private_mempool \in Managers
    /\ history = <<>>
    /\ fresh = 0
    /\ sent = <<>>
    /\ NoScanner

\* one call: its arguments, the providers it invoked in order, and its result
SendTransaction ==
    /\ Len(sent) < MaxSends
    /\ \E retry_on_failure \in BOOLEAN, outs \in SendOutcomes :
           LET r == send_transaction(private_mempool, retry_on_failure, outs)
           IN  sent' = Append(sent, [retry_on_failure |-> retry_on_failure,
                                     outs |-> outs,
                                     invoked |-> r.invoked,
                                     tx_hash |-> r.tx_hash])
    /\ UNCHANGED <<now, cb, stats, pc, frame, log, last, dry_run, telegram,
                   private_mempool, history, fresh, scanner_vars>>

NextMempool == SendTransaction

SpecMempool == InitMempool /\ [][NextMempool]_vars

----------------------------------------------------------------------------
(* GasEstimator and ScrollDEXScanner._check_arbitrage_direction,
   src/src/scanner.py.  Token amounts and dollars are counted in units of
   1/10000; percentages in hundredths of a percent. *)

BASE_TRANSACTION_GAS == 21000
V2_SWAP_GAS == 130000
CONCENTRATED_SWAP_GAS == 180000
FLASHLOAN_OVERHEAD == 50000
AAVE_FLASHLOAN_FEE_BPS == 9
MIN_PROFIT_USD == 1

estimate_arbitrage_gas(buy_dex_type, sell_dex_type, num_hops) ==
    BASE_TRANSACTION_GAS + FLASHLOAN_OVERHEAD
    + (IF buy_dex_type = "concentrated" THEN CONCENTRATED_SWAP_GAS * num_hops
       ELSE V2_SWAP_GAS * num_hops)
    + (IF sell_dex_type = "concentrated" THEN CONCENTRATED_SWAP_GAS * num_hops
       ELSE V2_SWAP_GAS * num_hops)

\* GasPriceFetcher.estimate_transaction_cost_usd: gas_units * gwei / 1e9 * eth
\* price, in 1/10000 dollar (the markets below make the division exact)
estimate_transaction_cost_usd(gas_units, market) ==
    (gas_units * market.gas_price_gwei * market.eth_price_usd) \div 100000

profit_tokens(a) == a.sell_price - a.buy_price

gas_estimate(a) ==
    estimate_arbitrage_gas(a.buy_dex_type, a.sell_dex_type,
                           Max(a.buy_num_hops, a.sell_num_hops))

flashloan_fee_tokens(a) == a.amount * AAVE_FLASHLOAN_FEE_BPS

\* the five branches on the symbols of the pair: <<gross_profit_usd, flashloan_fee_usd>>
usd_accounting(a, market) ==
    IF a.token_out \in {"USDC", "USDT"}
    THEN <<profit_tokens(a) * a.amount, flashloan_fee_tokens(a) * a.amount>>
    ELSE IF a.token_out = "WETH"
    THEN <<profit_tokens(a) * a.amount * market.eth_price_usd,
           flashloan_fee_tokens(a) * market.eth_price_usd>>
    ELSE IF a.token_in \in {"USDC", "USDT"}
    THEN <<profit_tokens(a) * a.amount, flashloan_fee_tokens(a)>>
    ELSE IF a.token_in = "WETH"
    THEN <<profit_tokens(a) * a.amount * market.eth_price_usd,
           flashloan_fee_tokens(a) * market.eth_price_usd>>
    ELSE <<0, 0>>

gross_profit_usd(a, market) == usd_accounting(a, market)[1]
flashloan_fee_usd(a, market) == usd_accounting(a, market)[2]
gas_cost_usd(a, market) == estimate_transaction_cost_usd(gas_estimate(a), market)

net_profit_usd(a, market) ==
    gross_profit_usd(a, market) - gas_cost_usd(a, market) - flashloan_fee_usd(a, market)

\* net_profit_usd / (amount * buy_price) * 100, or 0 when the divisor is not
\* positive: a fraction num/den of hundredths of a percent, den > 0
net_profit_pct_after_gas(a, market) ==
    IF a.amount * a.buy_price > 0
    THEN [num |-> net_profit_usd(a, market) * 10000, den |-> a.amount * a.buy_price]
    ELSE [num |-> 0, den |-> 1]

\* the condition of the if at the end of _check_arbitrage_direction
is_profitable_strict(a, market) ==
    LET pct == net_profit_pct_after_gas(a, market)
    IN  /\ pct.num > PROFIT_THRESHOLD_PCT * pct.den
        /\ net_profit_usd(a, market) > MIN_PROFIT_USD * 10000
is_profitable(a, market) ==
    LET pct == net_profit_pct_after_gas(a, market)
    IN  /\ pct.num >= PROFIT_THRESHOLD_PCT * pct.den
        /\ net_profit_usd(a, market) >= MIN_PROFIT_USD * 10000

\* the dict appended to self.opportunities (profit_pct and profit_usd, which are
\* rounded copies of the two net profits, are left out)
opportunity(a, market, t) ==
    [timestamp |-> t, token_in |-> a.token_in, token_out |-> a.token_out,
     buy_dex |-> a.buy_dex, sell_dex |-> a.sell_dex,
     buy_price |-> a.buy_price, sell_price |-> a.sell_price,
     gas_estimate |-> gas_estimate(a), amount |-> a.amount,
     buy_route |-> a.buy_route, sell_route |-> a.sell_route,
     is_multi_hop |-> (Len(a.buy_route) > 2 \/ Len(a.sell_route) > 2),
     buy_num_hops |-> a.buy_num_hops, sell_num_hops |-> a.sell_num_hops]

\* the scanner's state a call works on: self.opportunities and what was done
\* with each opportunity
Scanner == [opportunities |-> opportunities, effects |-> effects]

\* _check_arbitrage_direction: append, print, log; it does nothing else with
\* the opportunity
_check_arbitrage_direction(sc, a, market, t) ==
    IF is_profitable(a, market)
    THEN LET n == Len(sc.opportunities) + 1
         IN  [opportunities |-> Append(sc.opportunities, opportunity(a, market, t)),
              effects |-> sc.effects \o <<<<"append", n>>, <<"log_opportunity", n>>,
                                           <<"logger.info", n>>>>]
    ELSE sc

\* gas price (gwei) and ETH price (USD) as the two fetchers report them
Markets ==
    {[gas_price_gwei |-> 100, eth_price_usd |-> 1],
     [gas_price_gwei |-> 50, eth_price_usd |-> 2]}

\* one pair of symbols for each branch of the USD accounting
DetectorPairs ==
    {<<"WETH", "USDC">>, <<"USDC", "WETH">>, <<"USDC", "STONE">>, <<"WETH", "STONE">>,
     <<"STONE", "WBTC">>}

\* buy prices of 100, 200 and 400, and price differences around the two floors
BuyPrices == {1000000, 2000000, 4000000}
PriceDifferences == {0, 10339, 10340, 10341, 20339, 20340}
Amounts == {1, 2}

\* the route of a leg: direct, or through WETH when WETH is not an end of it
LegRoutes(token_in, token_out) ==
    {<<token_in, token_out>>}
    \cup (IF "WETH" \in {token_in, token_out} THEN {}
          ELSE {<<token_in, "WETH", token_out>>})

\* the arguments find_arbitrage passes for a buy quote and a sell quote
DirectionArgs(token_in, token_out, buy_key, sell_key, buy, sell, amount) ==
    [token_in |-> token_in, token_out |-> token_out,
     buy_dex |-> buy_key, sell_dex |-> sell_key,
     buy_price |-> buy.price, sell_price |-> sell.price,
     buy_dex_type |-> buy.type, sell_dex_type |-> sell.type,
     buy_num_hops |-> buy.num_hops, sell_num_hops |-> sell.num_hops,
     buy_route |-> buy.route, sell_route |-> sell.route, amount |-> amount]

\* a quote as scan_pair stores it in prices
Quote(dex, price, route) ==
    [price |-> price, type |-> dex.type, route |-> route, num_hops |-> Len(route) - 1]

DetectorInputs ==
    UNION {
        {[args |-> DirectionArgs(pair[1], pair[2], <<dex_list[b].name>>, <<dex_list[s].name>>,
                                 Quote(dex_list[b], bp, br),
                                 Quote(dex_list[s], bp + d, <<pair[1], pair[2]>>), amount),
          market |-> market, done |-> FALSE] :
            b \in {1, 2}, s \in {1, 2}, bp \in BuyPrices, d \in PriceDifferences,
            br \in LegRoutes(pair[1], pair[2]), amount \in Amounts, market \in Markets} :
        pair \in DetectorPairs}

InitDetector ==
    /\ now = 0
    /\ cb = CircuitBreaker__init
    /\ stats = ArbitrageExecutor__init_stats
    /\ pc = [t \in Tasks |-> "idle"]
    /\ frame = [t \in Tasks |-> None]
    /\ log = [t \in Tasks |-> <<>>]
    /\ last = NoCall
    /\ dry_run = TRUE
    /\ telegram = FALSE
    /\ private_mempool = None
    /\ history = <<>>
    /\ fresh = 0
    /\ sent = <<>>
    /\ opportunities = <<>>
    /\ effects = <<>>
    /\ scan = None
    /\ fetcher = None
    /\ limiter = None
    /\ \E c \in DetectorInputs : calls = <<c>>

\* one call of _check_arbitrage_direction on a scanner that has found nothing yet
CheckArbitrageDirection ==
    /\ ~calls[1].done
    /\ LET sc == _check_arbitrage_direction(Scanner, calls[1].args, calls[1].market, now)
       IN  /\ opportunities' = sc.opportunities
           /\ effects' = sc.effects
    /\ calls' = [calls EXCEPT ![1].done = TRUE]
    /\ UNCHANGED <<executor_vars, scan, fetcher, limiter>>

NextDetector == CheckArbitrageDirection

SpecDetector == InitDetector /\ [][NextDetector]_vars

----------------------------------------------------------------------------
(* MultiHopRouter, src/utils/routing.py.  available_pairs is None or a set of
   pairs: [given |-> FALSE] or [given |-> TRUE, pairs |-> ...] *)

NoPairs == [given |-> FALSE, pairs |-> {}]

_pair_exists(token_a, token_b, available_pairs) ==
    <<token_a, token_b>> \in available_pairs \/ <<token_b, token_a>> \in available_pairs

_route_is_valid(route, available_pairs) ==
    \A i \in 1..(Len(route) - 1) : _pair_exists(route[i], route[i + 1], available_pairs)

\* the routes found so far: routes, and seen_routes, which holds the same tuples
NoRoutes == [routes |-> <<>>, seen_routes |-> {}]

\* if available_pairs is None or <valid>: if route_tuple not in seen_routes: append
add_route_unseen(found, route, available_pairs, valid) ==
    IF ~available_pairs.given \/ valid
    THEN [routes |-> Append(found.routes, route),
          seen_routes |-> found.seen_routes \cup {route}]
    ELSE found
add_route(found, route, available_pairs, valid) ==
    IF ~available_pairs.given \/ valid
    THEN IF route \notin found.seen_routes
         THEN [routes |-> Append(found.routes, route),
               seen_routes |-> found.seen_routes \cup {route}]
         ELSE found
    ELSE found

\* for base_token in self.base_tokens, from the i-th on
RECURSIVE two_hop_routes(_, _, _, _, _, _)
two_hop_skip_none(found, base_tokens, i, token_in, token_out, available_pairs) ==
    IF i > Len(base_tokens) THEN found
    ELSE LET route == <<token_in, base_tokens[i], token_out>>
         IN  two_hop_routes(
                 add_route(found, route, available_pairs,
                           _route_is_valid(route, available_pairs.pairs)),
                 base_tokens, i + 1, token_in, token_out, available_pairs)
two_hop_routes(found, base_tokens, i, token_in, token_out, available_pairs) ==
    IF i > Len(base_tokens) THEN found
    ELSE LET base_token == base_tokens[i]
             route == <<token_in, base_token, token_out>>
         IN  two_hop_routes(
                 IF base_token = token_in \/ base_token = token_out THEN found
                 ELSE add_route(found, route, available_pairs,
                                _route_is_valid(route, available_pairs.pairs)),
                 base_tokens, i + 1, token_in, token_out, available_pairs)

\* for base1 in self.base_tokens: for base2 in self.base_tokens, from (i, j) on
RECURSIVE three_hop_routes(_, _, _, _, _, _, _)
three_hop_routes(found, base_tokens, i, j, token_in, token_out, available_pairs) ==
    IF i > Len(base_tokens) THEN found
    ELSE IF j > Len(base_tokens)
    THEN three_hop_routes(found, base_tokens, i + 1, 1, token_in, token_out,
                          available_pairs)
    ELSE LET base1 == base_tokens[i]
             base2 == base_tokens[j]
             route == <<token_in, base1, base2, token_out>>
         IN  three_hop_routes(
                 IF \/ base1 = base2
                    \/ base1 \in {token_in, token_out}
                    \/ base2 \in {token_in, token_out}
                 THEN found
                 ELSE add_route(found, route, available_pairs,
                                _route_is_valid(route, available_pairs.pairs)),
                 base_tokens, i, j + 1, token_in, token_out, available_pairs)

\* find_routes: [raised, routes]; token symbols are non-empty strings here, so of
\* the input checks those on equal tokens and on max_hops remain
find_routes(base_tokens, token_in, token_out, available_pairs, max_hops) ==
    IF token_in = token_out \/ max_hops < 1 \/ max_hops > 3
    THEN [raised |-> TRUE, routes |-> <<>>]
    ELSE LET direct == add_route(NoRoutes, <<token_in, token_out>>, available_pairs,
                                 _pair_exists(token_in, token_out, available_pairs.pairs))
             two == IF max_hops >= 2
                    THEN two_hop_routes(direct, base_tokens, 1, token_in, token_out,
                                        available_pairs)
                    ELSE direct
             three == IF max_hops >= 3 /\ Len(base_tokens) >= 2
                      THEN three_hop_routes(two, base_tokens, 1, 1, token_in, token_out,
                                            available_pairs)
                      ELSE two
         IN  [raised |-> FALSE, routes |-> three.routes]

\* the calls made on the router: bridge-token lists with duplicates and with an
\* endpoint among them, every hop bound from 0 to 4, no filter or any set of
\* these pairs
BridgeTokens == {"WETH", "WBTC", "STONE"}
BridgeLists ==
    {<<>>} \cup {<<a>> : a \in BridgeTokens}
    \cup {<<a, b>> : a \in BridgeTokens, b \in BridgeTokens}
    \cup {<<a, b, c>> : a \in BridgeTokens, b \in BridgeTokens, c \in BridgeTokens}
KnownPairs ==
    {<<"STONE", "USDC">>, <<"WETH", "STONE">>, <<"WETH", "USDC">>, <<"WBTC", "WETH">>,
     <<"STONE", "WBTC">>, <<"USDC", "WBTC">>}
PairFilters == {NoPairs} \cup {[given |-> TRUE, pairs |-> ps] : ps \in SUBSET KnownPairs}
HopBounds == 0..4
RouterEndpoints == {<<"STONE", "USDC">>, <<"USDC", "USDC">>}

InitRouter ==
    /\ now = 0
    /\ cb = CircuitBreaker__init
    /\ stats = ArbitrageExecutor__init_stats
    /\ pc = [t \in Tasks |-> "idle"]
    /\ frame = [t \in Tasks |-> None]
    /\ log = [t \in Tasks |-> <<>>]
    /\ last = NoCall
    /\ dry_run = TRUE
    /\ telegram = FALSE
    /\ private_mempool = None
    /\ history = <<>>
    /\ fresh = 0
    /\ sent = <<>>
    /\ opportunities = <<>>
    /\ effects = <<>>
    /\ scan = None
    /\ fetcher = None
    /\ limiter = None
    /\ \E base_tokens \in BridgeLists, ends \in RouterEndpoints,
          available_pairs \in PairFilters, max_hops \in HopBounds :
           calls = <<[base_tokens |-> base_tokens, token_in |-> ends[1],
                      token_out |-> ends[2], available_pairs |-> available_pairs,
                      max_hops |-> max_hops, done |-> FALSE,
                      result |-> [raised |-> FALSE, routes |-> <<>>]]>>

\* one call of find_routes
FindRoutes ==
    /\ ~calls[1].done
    /\ LET c == calls[1]
       IN  calls' = [calls EXCEPT
               ![1].done = TRUE,
               ![1].result = find_routes(c.base_tokens, c.token_in, c.token_out,
                                         c.available_pairs, c.max_hops)]
    /\ UNCHANGED <<executor_vars, opportunities, effects, scan, fetcher, limiter>>

NextRouter == FindRoutes

SpecRouter == InitRouter /\ [][NextRouter]_vars

----------------------------------------------------------------------------
(* ScrollDEXScanner.find_arbitrage.  prices, a dict, is the sequence of its
   items in insertion order: <<[key, quote], ...>> *)

\* the body of the two loops for dex1 = prices[i], dex2 = prices[j]
check_quote_pair_swapped(sc, ctx, i, j) ==
    LET q1 == ctx.prices[i]
        q2 == ctx.prices[j]
    IN  IF q1.quote.price < q2.quote.price
        THEN _check_arbitrage_direction(sc,
                 DirectionArgs(ctx.token_in, ctx.token_out, q1.key, q2.key,
                               q1.quote, q2.quote, ctx.amount), ctx.market, ctx.t)
        ELSE IF q2.quote.price < q1.quote.price
        THEN _check_arbitrage_direction(sc,
                 DirectionArgs(ctx.token_in, ctx.token_out, q1.key, q2.key,
                               q2.quote, q1.quote, ctx.amount), ctx.market, ctx.t)
        ELSE sc
check_quote_pair(sc, ctx, i, j) ==
    LET q1 == ctx.prices[i]
        q2 == ctx.prices[j]
    IN  IF q1.quote.price < q2.quote.price
        THEN _check_arbitrage_direction(sc,
                 DirectionArgs(ctx.token_in, ctx.token_out, q1.key, q2.key,
                               q1.quote, q2.quote, ctx.amount), ctx.market, ctx.t)
        ELSE IF q2.quote.price < q1.quote.price
        THEN _check_arbitrage_direction(sc,
                 DirectionArgs(ctx.token_in, ctx.token_out, q2.key, q1.key,
                               q2.quote, q1.quote, ctx.amount), ctx.market, ctx.t)
        ELSE sc

\* for i, dex1 in enumerate(dex_names): for dex2 in dex_names[i+1:]
RECURSIVE find_arbitrage_loop(_, _, _, _)
find_arbitrage_loop(sc, ctx, i, j) ==
    IF i > Len(ctx.prices) THEN sc
    ELSE IF j > Len(ctx.prices) THEN find_arbitrage_loop(sc, ctx, i + 1, i + 2)
    ELSE find_arbitrage_loop(check_quote_pair(sc, ctx, i, j), ctx, i, j + 1)

find_arbitrage(sc, token_in, token_out, prices, amount, market, t) ==
    find_arbitrage_loop(sc, [token_in |-> token_in, token_out |-> token_out,
                             prices |-> prices, amount |-> amount, market |-> market,
                             t |-> t], 1, 2)

\* the keys of prices are strings, written as the sequence of their pieces:
\* dex['name'] for a direct quote, f"{dex['name']}_{'_'.join(route)}" for a
\* multi-hop quote
dex_key(dex) == <<dex.name>>
RECURSIVE Join(_)
Join(route) ==
    IF Len(route) = 1 THEN <<route[1]>> ELSE <<route[1], "_">> \o Join(Tail(route))
route_key(dex, route) == <<dex.name, "_">> \o Join(route)

\* the prices find_arbitrage is called on: two direct quotes of STONE/USDC, and
\* with them or not a quote of DexA's route through WETH
QuotedPrices == {2000000, 2010340, 2020700}
PriceDicts ==
    LET via == <<"STONE", "WETH", "USDC">>
        direct == <<"STONE", "USDC">>
    IN  {<<[key |-> dex_key(dex_list[1]), quote |-> Quote(dex_list[1], p1, direct)],
           [key |-> dex_key(dex_list[2]), quote |-> Quote(dex_list[2], p2, direct)]>> :
            p1 \in QuotedPrices, p2 \in QuotedPrices}
        \cup
        {<<[key |-> dex_key(dex_list[1]), quote |-> Quote(dex_list[1], p1, direct)],
           [key |-> dex_key(dex_list[2]), quote |-> Quote(dex_list[2], p2, direct)],
           [key |-> route_key(dex_list[1], via), quote |-> Quote(dex_list[1], p3, via)]>> :
            p1 \in QuotedPrices, p2 \in QuotedPrices, p3 \in QuotedPrices}

InitFindArbitrage ==
    /\ now = 0
    /\ cb = CircuitBreaker__init
    /\ stats = ArbitrageExecutor__init_stats
    /\ pc = [t \in Tasks |-> "idle"]
    /\ frame = [t \in Tasks |-> None]
    /\ log = [t \in Tasks |-> <<>>]
    /\ last = NoCall
    /\ dry_run = TRUE
    /\ telegram = FALSE
    /\ private_mempool = None
    /\ history = <<>>
    /\ fresh = 0
    /\ sent = <<>>
    /\ opportunities = <<>>
    /\ effects = <<>>
    /\ scan = None
    /\ fetcher = None
    /\ limiter = None
    /\ \E prices \in PriceDicts, amount \in Amounts, market \in Markets :
           calls = <<[token_in |-> "STONE", token_out |-> "USDC", prices |-> prices,
                      amount |-> amount, market |-> market, done |-> FALSE]>>

\* one call of find_arbitrage on a scanner that has found nothing yet
FindArbitrage ==
    /\ ~calls[1].done
    /\ LET c == calls[1]
           sc == find_arbitrage(Scanner, c.token_in, c.token_out, c.prices, c.amount,
                                c.market, now)
       IN  /\ opportunities' = sc.opportunities
           /\ effects' = sc.effects
    /\ calls' = [calls EXCEPT ![1].done = TRUE]
    /\ UNCHANGED <<executor_vars, scan, fetcher, limiter>>

NextFindArbitrage == FindArbitrage

SpecFindArbitrage == InitFindArbitrage /\ [][NextFindArbitrage]_vars

----------------------------------------------------------------------------
(* ScrollDEXScanner.scan_pair and run_continuous_scan.  The state of the
   venues is a rate per dex and ordered pair of symbols, 0 where the pool is
   missing or the read fails; amounts are in units of 1/10000. *)

\* get_price / get_concentrated_price: the amount out, or None on any failure
get_price(venues, dex, token_in, token_out, amount_in) ==
    LET rate == venues[dex.name][<<token_in.symbol, token_out.symbol>>]
    IN  IF rate = 0 THEN None ELSE <<amount_in * rate>>

\* a str as Python compares it: equal to no dict
py_str(symbol) == [str |-> symbol]

\* token_in_symbol in self.tokens, where self.tokens is the list of token dicts
symbol_in_tokens(symbol) ==
    \E i \in 1..Len(common_tokens) : common_tokens[i] = py_str(symbol)

\* get_multi_hop_price: [raised, value]. With a first hop whose symbols are both
\* "in" self.tokens, self.tokens[token_in_symbol] indexes a list by a str
get_multi_hop_price(venues, dex, route, amount) ==
    IF Len(route) < 2 THEN [raised |-> FALSE, value |-> <<amount>>]
    ELSE IF ~symbol_in_tokens(route[1]) \/ ~symbol_in_tokens(route[2])
    THEN [raised |-> FALSE, value |-> None]
    ELSE [raised |-> TRUE, value |-> None]

\* prices[key] = quote
RECURSIVE dict_index(_, _, _)
dict_index(prices, key, i) ==
    IF i > Len(prices) THEN 0
    ELSE IF prices[i].key = key THEN i ELSE dict_index(prices, key, i + 1)
dict_set(prices, key, quote) ==
    LET i == dict_index(prices, key, 1)
    IN  IF i = 0 THEN Append(prices, [key |-> key, quote |-> quote])
        ELSE [prices EXCEPT ![i].quote = quote]

\* scan_pair: for dex in self.dexes, from the d-th on
RECURSIVE scan_direct(_, _, _, _, _, _)
scan_direct(prices, d, venues, token_in, token_out, amount) ==
    IF d > Len(dex_list) THEN prices
    ELSE LET dex == dex_list[d]
             price == IF dex.type \in {"uniswap_v2", "concentrated"}
                      THEN get_price(venues, dex, token_in, token_out, amount)
                      ELSE None
         IN  scan_direct(
                 IF price # None /\ price[1] # 0
                 THEN dict_set(prices, dex_key(dex),
                               Quote(dex, price[1], <<token_in.symbol, token_out.symbol>>))
                 ELSE prices,
                 d + 1, venues, token_in, token_out, amount)

\* _scan_multi_hop_routes: for route in routes: for dex in self.dexes, from
\* (r, d) on; [raised, prices]
RECURSIVE scan_routes(_, _, _, _, _, _)
scan_routes(prices, routes, r, d, venues, amount) ==
    IF r > Len(routes) THEN [raised |-> FALSE, prices |-> prices]
    ELSE IF d > Len(dex_list) THEN scan_routes(prices, routes, r + 1, 1, venues, amount)
    ELSE LET dex == dex_list[d]
             final_price == get_multi_hop_price(venues, dex, routes[r], amount)
         IN  IF final_price.raised THEN [raised |-> TRUE, prices |-> prices]
             ELSE scan_routes(
                      IF final_price.value # None /\ final_price.value[1] # 0
                      THEN dict_set(prices, route_key(dex, routes[r]),
                                    Quote(dex, final_price.value[1], routes[r]))
                      ELSE prices,
                      routes, r, d + 1, venues, amount)

\* self.multi_hop_router = MultiHopRouter(common_base_tokens=['WETH'])
scanner_base_tokens == <<"WETH">>

_scan_multi_hop_routes(cfg, venues, token_in, token_out, amount) ==
    LET found == find_routes(scanner_base_tokens, token_in.symbol, token_out.symbol,
                             NoPairs, cfg.max_hops)
        routes == SelectSeq(found.routes, LAMBDA route : Len(route) > 2)
    IN  IF found.raised THEN [raised |-> TRUE, prices |-> <<>>]
        ELSE scan_routes(<<>>, routes, 1, 1, venues, amount)

RECURSIVE dict_merge(_, _, _)
dict_merge(prices, more, i) ==
    IF i > Len(more) THEN prices
    ELSE dict_merge(dict_set(prices, more[i].key, more[i].quote), more, i + 1)

\* scan_pair: [raised, prices, sc], sc the scanner's state after it
scan_pair(sc, cfg, venues, market, token_in, token_out, amount, t) ==
    LET direct == scan_direct(<<>>, 1, venues, token_in, token_out, amount * 10000)
        multi == IF cfg.enable_multi_hop /\ Len(common_tokens) > 2
                 THEN _scan_multi_hop_routes(cfg, venues, token_in, token_out,
                                             amount * 10000)
                 ELSE [raised |-> FALSE, prices |-> <<>>]
        prices == dict_merge(direct, multi.prices, 1)
    IN  IF multi.raised THEN [raised |-> TRUE, prices |-> direct, sc |-> sc]
        ELSE [raised |-> FALSE, prices |-> prices,
              sc |-> IF Len(prices) >= 2
                     THEN find_arbitrage(sc, token_in.symbol, token_out.symbol, prices,
                                         amount, market, t)
                     ELSE sc]

\* for i, token_in in enumerate(self.tokens): for token_out in self.tokens[i+1:]
ScanOrder ==
    LET n == Len(common_tokens)
        all == [k \in 1..(n * n) |-> <<((k - 1) \div n) + 1, ((k - 1) % n) + 1>>]
    IN  SelectSeq(all, LAMBDA ij : ij[1] < ij[2])

\* the pools a scan of the pair can touch: the pair itself and the two hops
\* through WETH
HopsOf(token_in, token_out) ==
    {<<token_in, token_out>>}
    \cup (IF "WETH" \in {token_in, token_out} THEN {}
          ELSE {<<token_in, "WETH">>, <<"WETH", token_out>>})
Rates == {0, 200, 202}
VenueStates(token_in, token_out) == [dexes -> [HopsOf(token_in, token_out) -> Rates]]

\* ENABLE_MULTI_HOP_ROUTING and MAX_ROUTING_HOPS as the environment sets them
ScannerConfigs ==
    {[enable_multi_hop |-> TRUE, max_hops |-> 2],
     [enable_multi_hop |-> FALSE, max_hops |-> 2],
     [enable_multi_hop |-> TRUE, max_hops |-> 4]}

\* ScrollDEXScanner.__init__, and run_continuous_scan before its first tick
InitScanner ==
    /\ now = 0
    /\ cb = CircuitBreaker__init
    /\ stats = ArbitrageExecutor__init_stats
    /\ pc = [t \in Tasks |-> "idle"]
    /\ frame = [t \in Tasks |-> None]
    /\ log = [t \in Tasks |-> <<>>]
    /\ last = NoCall
    /\ dry_run = TRUE
    /\ telegram = FALSE
    /\ private_mempool = None
    /\ history = <<>>
    /\ fresh = 0
    /\ sent = <<>>
    /\ opportunities = <<>>
    /\ effects = <<>>
    /\ calls = <<>>
    /\ \E cfg \in ScannerConfigs :
           scan = [enable_multi_hop |-> cfg.enable_multi_hop, max_hops |-> cfg.max_hops,
                   scan_count |-> 0, next |-> 1, pair_scans |-> 0, last |-> None]
    /\ fetcher = None
    /\ limiter = None

\* run_continuous_scan: await self.scan_pair(token_in, token_out, amount=1.0) for
\* the next pair of the tick; an exception ends the tick, and after the last pair
\* or an exception the loop sleeps and starts the next tick
ScanPair ==
    /\ scan.pair_scans < MaxPairScans
    /\ LET ij == ScanOrder[scan.next]
           token_in == common_tokens[ij[1]]
           token_out == common_tokens[ij[2]]
       IN  \E venues \in VenueStates(token_in.symbol, token_out.symbol),
              market \in Markets :
               LET r == scan_pair(Scanner, scan, venues, market, token_in, token_out,
                                  1, now)
               IN  /\ opportunities' = r.sc.opportunities
                   /\ effects' = r.sc.effects
                   /\ scan' = [scan EXCEPT
                          !.scan_count = IF scan.next = 1 THEN @ + 1 ELSE @,
                          !.next = IF r.raised \/ scan.next = Len(ScanOrder)
                                   THEN 1 ELSE @ + 1,
                          !.pair_scans = @ + 1,
                          !.last = <<[token_in |-> token_in.symbol,
                                      token_out |-> token_out.symbol,
                                      venues |-> venues, prices |-> r.prices,
                                      raised |-> r.raised]>>]
    /\ UNCHANGED <<executor_vars, calls, fetcher, limiter>>

NextScanner == ScanPair

SpecScanner == InitScanner /\ [][NextScanner]_vars

----------------------------------------------------------------------------
(* PathFinder of src/utils/routing.py: circular paths from a start token.  *)
(* A token list is the sequence of its symbols; the dict built from it     *)
(* keeps one key per symbol, in the order of first insertion.              *)

MAX_TOKENS_FOR_PATHFINDING == 20
MAX_PATHS_TO_GENERATE == 1000

\* the executor is not constructed beside the router, the calculators or the fetchers
NoExecutor ==
    /\ now = 0
    /\ cb = CircuitBreaker__init
    /\ stats = ArbitrageExecutor__init_stats
    /\ pc = [t \in Tasks |-> "idle"]
    /\ frame = [t \in Tasks |-> None]
    /\ log = [t \in Tasks |-> <<>>]
    /\ last = NoCall
    /\ dry_run = TRUE
    /\ telegram = FALSE
    /\ private_mempool = None
    /\ history = <<>>
    /\ fresh = 0
    /\ sent = <<>>

\* {t['symbol']: t for t in tokens}.keys() over the first i tokens
RECURSIVE symbol_keys(_, _)
symbol_keys(symbols, i) ==
    IF i = 0 THEN <<>>
    ELSE LET keys == symbol_keys(symbols, i - 1)
         IN  IF \E k \in 1..Len(keys) : keys[k] = symbols[i]
             THEN keys ELSE Append(keys, symbols[i])

\* PathFinder.__init__: ValueError above the token limit, else the symbol dict
PathFinder__init(symbols) ==
    IF Len(symbols) > MAX_TOKENS_FOR_PATHFINDING
    THEN [raised |-> TRUE, tokens |-> <<>>]
    ELSE [raised |-> FALSE, tokens |-> symbol_keys(symbols, Len(symbols))]

NoPaths == [paths |-> <<>>, returned |-> FALSE]

\* the body of each loop: append an unseen path, then return when the list has
\* reached max_paths; nothing runs after the return
add_path(found, path, max_paths) ==
    IF found.returned \/ (\E k \in 1..Len(found.paths) : found.paths[k] = path)
    THEN found
    ELSE LET paths == Append(found.paths, path)
         IN  [paths |-> paths, returned |-> Len(paths) >= max_paths]

RECURSIVE add_paths(_, _, _, _)
add_paths(found, candidates, k, max_paths) ==
    IF k > Len(candidates) THEN found
    ELSE add_paths(add_path(found, candidates[k], max_paths), candidates, k + 1, max_paths)

\* for token in other_tokens
two_hop_paths(start, other) ==
    [k \in 1..Len(other) |-> <<start, other[k], start>>]

\* for token1 in other_tokens: for token2 in other_tokens: skip token1 == token2
three_hop_paths(start, other) ==
    LET n == Len(other)
        loop == [k \in 1..(n * n) |-> <<other[((k - 1) \div n) + 1], other[((k - 1) % n) + 1]>>]
        kept == SelectSeq(loop, LAMBDA p : p[1] # p[2])
    IN  [k \in 1..Len(kept) |-> <<start, kept[k][1], kept[k][2], start>>]

\* the three nested loops over limited_tokens, skipping repeated tokens
four_hop_paths(start, limited) ==
    LET n == Len(limited)
        loop == [k \in 1..(n * n * n) |->
                    <<limited[((k - 1) \div (n * n)) + 1],
                      limited[(((k - 1) \div n) % n) + 1],
                      limited[((k - 1) % n) + 1]>>]
        kept == SelectSeq(loop, LAMBDA p : p[2] # p[1] /\ p[3] # p[1] /\ p[3] # p[2])
    IN  [k \in 1..Len(kept) |-> <<start, kept[k][1], kept[k][2], kept[k][3], start>>]

\* PathFinder.find_arbitrage_paths on the symbol dict `keys`
find_arbitrage_paths(keys, start_token_symbol, max_hops, max_paths) ==
    IF ~(\E k \in 1..Len(keys) : keys[k] = start_token_symbol)
       \/ max_hops < 2 \/ max_hops > 4
    THEN [raised |-> TRUE, paths |-> <<>>]
    ELSE LET other_tokens == SelectSeq(keys, LAMBDA s : s # start_token_symbol)
             limited_tokens == SubSeq(other_tokens, 1, Min(10, Len(other_tokens)))
             two == add_paths(NoPaths, two_hop_paths(start_token_symbol, other_tokens),
                              1, max_paths)
             three == IF max_hops >= 3
                      THEN add_paths(two, three_hop_paths(start_token_symbol, other_tokens),
                                     1, max_paths)
                      ELSE two
             four == IF max_hops >= 4
                     THEN add_paths(three, four_hop_paths(start_token_symbol, limited_tokens),
                                    1, max_paths)
                     ELSE three
         IN  [raised |-> FALSE, paths |-> four.paths]

\* the pathfinders built and the calls made on them: token lists of up to four
\* symbols with repeats, either start token, hop bounds 1 to 5 (1 and 5 raise),
\* and path caps from 0 up to one more than the fifteen paths four tokens give
PathTokens == {"WETH", "USDC", "WBTC", "STONE"}
TokenLists ==
    {<<>>} \cup {<<a>> : a \in PathTokens}
    \cup {<<a, b>> : a \in PathTokens, b \in PathTokens}
    \cup {<<a, b, c>> : a \in PathTokens, b \in PathTokens, c \in PathTokens}
    \cup {<<a, b, c, d>> : a \in PathTokens, b \in PathTokens, c \in PathTokens,
                           d \in PathTokens}
StartTokens == {"WETH", "USDC"}
PathHopBounds == 1..5
PathCaps == 0..16

InitPathFinder ==
    /\ NoExecutor
    /\ opportunities = <<>>
    /\ effects = <<>>
    /\ scan = None
    /\ fetcher = None
    /\ limiter = None
    /\ \E symbols \in TokenLists, start \in StartTokens,
          max_hops \in PathHopBounds, max_paths \in PathCaps :
           calls = <<[tokens |-> PathFinder__init(symbols).tokens,
                      start_token_symbol |-> start, max_hops |-> max_hops,
                      max_paths |-> max_paths, done |-> FALSE,
                      result |-> [raised |-> FALSE, paths |-> <<>>]]>>

\* one call of find_arbitrage_paths
FindArbitragePaths ==
    /\ ~calls[1].done
    /\ LET c == calls[1]
       IN  calls' = [calls EXCEPT
               ![1].done = TRUE,
               ![1].result = find_arbitrage_paths(c.tokens, c.start_token_symbol,
                                                  c.max_hops, c.max_paths)]
    /\ UNCHANGED <<executor_vars, opportunities, effects, scan, fetcher, limiter>>

NextPathFinder == FindArbitragePaths

SpecPathFinder == InitPathFinder /\ [][NextPathFinder]_vars

----------------------------------------------------------------------------
(* MultiHopRouter.estimate_route_cost.  A fee is a whole number of         *)
(* thousandths (3 is the default 0.003); a percentage is the exact         *)
(* fraction num/den, so that compounding loses nothing to rounding.        *)

FeeDen == 1000

RECURSIVE Pow(_, _)
Pow(b, n) == IF n = 0 THEN 1 ELSE b * Pow(b, n - 1)

\* total_fee_pct taken as the linear sum num_swaps * fee_per_swap * 100
total_fee_pct_linear(fee_per_swap, num_swaps) ==
    [num |-> num_swaps * fee_per_swap * Pow(FeeDen, num_swaps - 1),
     den |-> Pow(FeeDen, num_swaps) \div 100]

\* total_fee_decimal = 1 - (1 - fee_per_swap) ** num_swaps, times 100
total_fee_pct(fee_per_swap, num_swaps) ==
    [num |-> Pow(FeeDen, num_swaps) - Pow(FeeDen - fee_per_swap, num_swaps),
     den |-> Pow(FeeDen, num_swaps) \div 100]

\* estimate_route_cost: ValueError on a route of fewer than two tokens, on
\* gas_per_swap <= 0 and on a fee outside [0, 1); else the RouteInfo
estimate_route_cost(route, gas_per_swap, fee_per_swap) ==
    IF Len(route) < 2 \/ gas_per_swap <= 0 \/ fee_per_swap < 0 \/ fee_per_swap >= FeeDen
    THEN [raised |-> TRUE, info |-> None]
    ELSE LET num_swaps == Len(route) - 1
         IN  [raised |-> FALSE,
              info |-> [path |-> route, num_swaps |-> num_swaps,
                        estimated_gas |-> num_swaps * gas_per_swap,
                        estimated_fee_pct |-> total_fee_pct(fee_per_swap, num_swaps)]]

\* the calls made: routes of up to four tokens (three swaps), the default gas per
\* swap and an invalid one, fees from below 0 to 1 with the default 0.003 among them
CostRouteTokens == {"WETH", "USDC", "STONE"}
CostRoutes ==
    {<<>>} \cup {<<a>> : a \in CostRouteTokens}
    \cup {<<a, b>> : a \in CostRouteTokens, b \in CostRouteTokens}
    \cup {<<a, b, c>> : a \in CostRouteTokens, b \in CostRouteTokens, c \in CostRouteTokens}
    \cup {<<a, b, c, d>> : a \in CostRouteTokens, b \in CostRouteTokens,
                           c \in CostRouteTokens, d \in CostRouteTokens}
GasPerSwap == {0, 150000}
FeesPerSwap == {-1, 0, 1, 3, 5, 30, 100, 500, 700, 1000}

InitRouteCost ==
    /\ NoExecutor
    /\ opportunities = <<>>
    /\ effects = <<>>
    /\ scan = None
    /\ fetcher = None
    /\ limiter = None
    /\ \E route \in CostRoutes, gas_per_swap \in GasPerSwap, fee_per_swap \in FeesPerSwap :
           calls = <<[route |-> route, gas_per_swap |-> gas_per_swap,
                      fee_per_swap |-> fee_per_swap, done |-> FALSE,
                      result |-> [raised |-> FALSE, info |-> None]]>>

\* one call of estimate_route_cost
EstimateRouteCost ==
    /\ ~calls[1].done
    /\ LET c == calls[1]
       IN  calls' = [calls EXCEPT
               ![1].done = TRUE,
               ![1].result = estimate_route_cost(c.route, c.gas_per_swap, c.fee_per_swap)]
    /\ UNCHANGED <<executor_vars, opportunities, effects, scan, fetcher, limiter>>

NextRouteCost == EstimateRouteCost

SpecRouteCost == InitRouteCost /\ [][NextRouteCost]_vars

----------------------------------------------------------------------------
(* SlippageCalculator of src/utils/slippage_calculator.py.  Decimal and    *)
(* float quantities are exact fractions [num, den] in lowest terms with    *)
(* den > 0; reserves are whole numbers of wei; a token's decimals give the *)
(* power of ten between wei and whole tokens.                              *)

Abs(n) == IF n < 0 THEN -n ELSE n

RECURSIVE GCD(_, _)
GCD(a, b) == IF b = 0 THEN a ELSE GCD(b, a % b)

Frac(n, d) == LET g == GCD(Abs(n), d) IN [num |-> n \div g, den |-> d \div g]
Whole(n) == [num |-> n, den |-> 1]
FracMul(x, y) ==
    LET g1 == GCD(Abs(x.num), y.den)
        g2 == GCD(Abs(y.num), x.den)
    IN  Frac((x.num \div g1) * (y.num \div g2), (x.den \div g2) * (y.den \div g1))
FracDiv(x, y) == FracMul(x, [num |-> y.den, den |-> y.num])
FracAdd(x, y) ==
    LET g == GCD(x.den, y.den)
    IN  Frac(x.num * (y.den \div g) + y.num * (x.den \div g), (x.den \div g) * y.den)
FracSub(x, y) == FracAdd(x, [num |-> -y.num, den |-> y.den])
\* whole parts first, then the fractional parts over a common denominator
FracLess(x, y) ==
    LET g == GCD(x.den, y.den)
    IN  IF x.num \div x.den # y.num \div y.den
        THEN x.num \div x.den < y.num \div y.den
        ELSE (x.num % x.den) * (y.den \div g) < (y.num % y.den) * (x.den \div g)
FracLeq(x, y) == ~FracLess(y, x)

\* dex.get('fee', 0.003), in thousandths
dex_fee(dex) == IF "fee" \in DOMAIN dex THEN Frac(dex.fee, FeeDen) ELSE Frac(3, FeeDen)

\* what the factory and the pair contract answer for a pair on a venue
NoPair == [answer |-> "no_pair"]
ReadFails == [answer |-> "read_fails"]

\* amount_out taken on the whole amount_in, no fee withheld
amount_out_fee_ignored(dex, reserve_in, reserve_out, token_in, token_out, amount_in) ==
    LET amount_in_wei == FracMul(amount_in, Whole(Pow(10, token_in.decimals)))
    IN  FracDiv(FracDiv(FracMul(amount_in_wei, Whole(reserve_out)),
                        FracAdd(Whole(reserve_in), amount_in_wei)),
                Whole(Pow(10, token_out.decimals)))

\* the constant product formula on the amount left after the fee
amount_out_with_fee(dex, reserve_in, reserve_out, token_in, token_out, amount_in) ==
    LET amount_in_with_fee == FracMul(amount_in, FracSub(Whole(1), dex_fee(dex)))
        amount_in_with_fee_wei ==
            FracMul(amount_in_with_fee, Whole(Pow(10, token_in.decimals)))
        numerator == FracMul(amount_in_with_fee_wei, Whole(reserve_out))
        denominator == FracAdd(Whole(reserve_in), amount_in_with_fee_wei)
    IN  FracDiv(FracDiv(numerator, denominator), Whole(Pow(10, token_out.decimals)))

\* calculate_v2_slippage: None when the pair is missing, when a read raises, and
\* on a zero reserve_in, amount_in or spot price; else the slippage record
calculate_v2_slippage(dex, pool, token_in, token_out, amount_in) ==
    IF pool = NoPair \/ pool = ReadFails \/ "factory" \notin DOMAIN dex
    THEN None
    ELSE LET reserve_in == IF pool.token0 = token_in.symbol
                           THEN pool.reserve0 ELSE pool.reserve1
             reserve_out == IF pool.token0 = token_in.symbol
                            THEN pool.reserve1 ELSE pool.reserve0
             reserve_in_decimal == Frac(reserve_in, Pow(10, token_in.decimals))
             reserve_out_decimal == Frac(reserve_out, Pow(10, token_out.decimals))
         IN  IF reserve_in_decimal.num = 0 \/ amount_in.num = 0 \/ reserve_out_decimal.num = 0
             THEN None
             ELSE LET amount_out == amount_out_with_fee(dex, reserve_in, reserve_out,
                                                        token_in, token_out, amount_in)
                      spot_price == FracDiv(reserve_out_decimal, reserve_in_decimal)
                      effective_price == FracDiv(amount_out, amount_in)
                  IN  [dex |-> dex.name,
                       reserve_in |-> reserve_in_decimal,
                       reserve_out |-> reserve_out_decimal,
                       amount_in |-> amount_in,
                       amount_out |-> amount_out,
                       spot_price |-> spot_price,
                       effective_price |-> effective_price,
                       price_impact_pct |->
                           FracMul(FracDiv(amount_in, reserve_in_decimal), Whole(100)),
                       slippage_pct |->
                           FracMul(FracDiv(FracSub(spot_price, effective_price), spot_price),
                                   Whole(100))]

\* the calls made: a v2 venue with no fee entry (0.003 applies) or a fee of 0,
\* 0.003 or 0.5; a pair that is missing, unreadable, or has reserves from 0 up,
\* in either token order; tokens of 0 or 1 decimals; amounts 0, 1/2, 1 and 3
SlippageTokens(decimals_in, decimals_out) ==
    <<[symbol |-> "WETH", decimals |-> decimals_in],
      [symbol |-> "USDC", decimals |-> decimals_out]>>
TokenDecimals == 0..1
V2Dexes ==
    {[name |-> "DexA", type |-> "uniswap_v2", factory |-> "0xA"]}
    \cup {[name |-> "DexA", type |-> "uniswap_v2", factory |-> "0xA", fee |-> f] :
              f \in {0, 3, 500}}
Reserves == {0, 1, 30, 200}
PoolStates ==
    {NoPair, ReadFails}
    \cup {[token0 |-> t, reserve0 |-> r0, reserve1 |-> r1] :
              t \in {"WETH", "USDC"}, r0 \in Reserves, r1 \in Reserves}
AmountsIn == {Whole(0), Frac(1, 2), Whole(1), Whole(3)}

InitSlippage ==
    /\ NoExecutor
    /\ opportunities = <<>>
    /\ effects = <<>>
    /\ scan = None
    /\ fetcher = None
    /\ limiter = None
    /\ \E dex \in V2Dexes, pool \in PoolStates, decimals_in \in TokenDecimals,
          decimals_out \in TokenDecimals, amount_in \in AmountsIn :
           calls = <<[dex |-> dex, pool |-> pool,
                      token_in |-> SlippageTokens(decimals_in, decimals_out)[1],
                      token_out |-> SlippageTokens(decimals_in, decimals_out)[2],
                      amount_in |-> amount_in, done |-> FALSE, result |-> None]>>

\* one call of calculate_v2_slippage
CalculateV2Slippage ==
    /\ ~calls[1].done
    /\ LET c == calls[1]
       IN  calls' = [calls EXCEPT
               ![1].done = TRUE,
               ![1].result = calculate_v2_slippage(c.dex, c.pool, c.token_in,
                                                   c.token_out, c.amount_in)]
    /\ UNCHANGED <<executor_vars, opportunities, effects, scan, fetcher, limiter>>

NextSlippage == CalculateV2Slippage

SpecSlippage == InitSlippage /\ [][NextSlippage]_vars

\* (False, None)
SlippageCheckFailed == [is_valid |-> FALSE, results |-> None]

\* results['is_valid'] taken as total_slippage < max_slippage_pct
slippage_within_strict(total_slippage, max_slippage_pct) ==
    FracLess(total_slippage, max_slippage_pct)

\* results['is_valid'] = total_slippage <= max_slippage_pct
slippage_within(total_slippage, max_slippage_pct) ==
    FracLeq(total_slippage, max_slippage_pct)

\* the end of validate_arbitrage_slippage: the legs present are summed and compared
slippage_results(buy, sell, max_slippage_pct) ==
    LET with_buy == IF buy # None THEN buy.slippage_pct ELSE Whole(0)
        total_slippage == IF sell # None THEN FracAdd(with_buy, sell.slippage_pct)
                          ELSE with_buy
        is_valid == slippage_within(total_slippage, max_slippage_pct)
    IN  [is_valid |-> is_valid,
         results |-> [buy |-> buy, sell |-> sell,
                      total_slippage_pct |-> total_slippage, is_valid |-> is_valid]]

\* validate_arbitrage_slippage.  A leg is computed only on a uniswap_v2 venue;
\* buy_slippage is bound only when the buy venue is one, so a v2 sell leg after
\* another kind of buy venue raises UnboundLocalError, caught as (False, None).
validate_arbitrage_slippage(buy_dex, sell_dex, buy_pool, sell_pool, token_in, token_out, amount, max_slippage_pct) ==
    LET buy_is_v2 == buy_dex.type = "uniswap_v2"
        sell_is_v2 == sell_dex.type = "uniswap_v2"
        buy_slippage == IF buy_is_v2
                        THEN calculate_v2_slippage(buy_dex, buy_pool, token_in, token_out,
                                                   amount)
                        ELSE None
    IN  IF buy_is_v2 /\ buy_slippage = None THEN SlippageCheckFailed
        ELSE IF sell_is_v2 /\ ~buy_is_v2 THEN SlippageCheckFailed
        ELSE LET sell_amount == IF buy_slippage # None THEN buy_slippage.amount_out
                                ELSE amount
                 sell_slippage == IF sell_is_v2
                                  THEN calculate_v2_slippage(sell_dex, sell_pool, token_out,
                                                             token_in, sell_amount)
                                  ELSE None
             IN  IF sell_is_v2 /\ sell_slippage = None THEN SlippageCheckFailed
                 ELSE slippage_results(buy_slippage, sell_slippage, max_slippage_pct)

\* the checks made: each venue a v2 one with fee 0 or 0.25 or a concentrated one
\* (no factory, no reserves read); each v2 pool missing, unreadable or with
\* reserves from 0 to 50; amounts 1/2 and 1; the default bound of 2 % and
\* bounds around 70 %, the total of a 1:1 pool of 1 followed by a 1:1 pool of 2
LegDexes(name) ==
    {[name |-> name, type |-> "uniswap_v2", factory |-> "0xA", fee |-> f] : f \in {0, 250}}
    \cup {[name |-> name, type |-> "concentrated"]}
LegReserves == {0, 1, 2, 50}
LegPools ==
    {NoPair, ReadFails}
    \cup {[token0 |-> "WETH", reserve0 |-> r0, reserve1 |-> r1] :
              r0 \in LegReserves, r1 \in LegReserves}
LegAmounts == {Frac(1, 2), Whole(1)}
MaxSlippagePcts == {Whole(2), Whole(69), Whole(70), Whole(71)}

InitValidateSlippage ==
    /\ NoExecutor
    /\ opportunities = <<>>
    /\ effects = <<>>
    /\ scan = None
    /\ fetcher = None
    /\ limiter = None
    /\ \E buy_dex \in LegDexes("DexA"), sell_dex \in LegDexes("DexB"),
          buy_pool \in LegPools, sell_pool \in LegPools,
          amount \in LegAmounts, max_slippage_pct \in MaxSlippagePcts :
           calls = <<[buy_dex |-> buy_dex, sell_dex |-> sell_dex,
                      buy_pool |-> buy_pool, sell_pool |-> sell_pool,
                      token_in |-> SlippageTokens(0, 0)[1],
                      token_out |-> SlippageTokens(0, 0)[2],
                      amount |-> amount, max_slippage_pct |-> max_slippage_pct,
                      done |-> FALSE, result |-> SlippageCheckFailed]>>

\* one call of validate_arbitrage_slippage
ValidateArbitrageSlippage ==
    /\ ~calls[1].done
    /\ LET c == calls[1]
       IN  calls' = [calls EXCEPT
               ![1].done = TRUE,
               ![1].result = validate_arbitrage_slippage(
                                 c.buy_dex, c.sell_dex, c.buy_pool, c.sell_pool,
                                 c.token_in, c.token_out, c.amount, c.max_slippage_pct)]
    /\ UNCHANGED <<executor_vars, opportunities, effects, scan, fetcher, limiter>>

NextValidateSlippage == ValidateArbitrageSlippage

SpecValidateSlippage == InitValidateSlippage /\ [][NextValidateSlippage]_vars

----------------------------------------------------------------------------
(* Concentrated-liquidity quotes: src/src/concentrated_liquidity.py and    *)
(* ScrollDEXScanner.get_concentrated_price.  An address is a number, so    *)
(* that the base/quote order can be taken; queryPrice answers a Q64.64     *)
(* square-root price, given here in quarters (sqrt_price_q64 = k * 2^62).  *)

Q64Quarter == 4

\* what CrocQuery.queryPrice does: raises (no pool, RPC failure) or answers k
QueryRaises == [raises |-> TRUE]
QueryAnswers(k) == [raises |-> FALSE, sqrt_price_q64 |-> k]

\* AmbientPriceFetcher.get_price: None when the query raises; else the amount out
\* at the squared price, inverted when the input token is the quote token, with
\* the price taken as a ratio of wei amounts
AmbientPriceFetcher_get_price(query, token_in, token_out, amount_in) ==
    IF query.raises THEN None
    ELSE LET is_buy == ~(token_in.address < token_out.address)
             sqrt_price == Frac(query.sqrt_price_q64, Q64Quarter)
             squared == FracMul(sqrt_price, sqrt_price)
             price == IF is_buy
                      THEN (IF squared.num > 0 THEN FracDiv(Whole(1), squared) ELSE Whole(0))
                      ELSE squared
             amount_in_adjusted == FracMul(amount_in, Whole(Pow(10, token_in.decimals)))
             amount_out_adjusted == FracMul(amount_in_adjusted, price)
         IN  FracDiv(amount_out_adjusted, Whole(Pow(10, token_out.decimals)))

\* iZiSwapPriceFetcher.get_price
iZiSwapPriceFetcher_get_price(token_in, token_out, amount_in) == None

\* ConcentratedLiquidityManager.get_price
ConcentratedLiquidityManager_get_price(query, dex_name, token_in, token_out, amount_in) ==
    IF dex_name = "Ambient"
    THEN AmbientPriceFetcher_get_price(query, token_in, token_out, amount_in)
    ELSE IF dex_name = "iZiSwap"
    THEN iZiSwapPriceFetcher_get_price(token_in, token_out, amount_in)
    ELSE None

\* ScrollDEXScanner.get_concentrated_price: the manager's answer, None on an exception
get_concentrated_price(query, dex, token_in, token_out, amount_in) ==
    ConcentratedLiquidityManager_get_price(query, dex.name, token_in, token_out, amount_in)

\* the queries made: the two venues the manager knows and one it does not, the
\* pair in both directions, tokens of 0 or 1 decimals, a query that raises or
\* answers a square-root price from 0 to 2, amounts 1/2, 1 and 3
ConcentratedDexes ==
    {[name |-> n, type |-> "concentrated"] : n \in {"Ambient", "iZiSwap", "Other"}}
ConcentratedTokens(decimals0, decimals1) ==
    <<[symbol |-> "WETH", address |-> 1, decimals |-> decimals0],
      [symbol |-> "USDC", address |-> 2, decimals |-> decimals1]>>
QueryOutcomes == {QueryRaises} \cup {QueryAnswers(k) : k \in {0, 1, 2, 4, 8}}
QuoteAmounts == {Frac(1, 2), Whole(1), Whole(3)}

InitConcentrated ==
    /\ NoExecutor
    /\ opportunities = <<>>
    /\ effects = <<>>
    /\ scan = None
    /\ fetcher = None
    /\ limiter = None
    /\ \E dex \in ConcentratedDexes, i \in 1..2, decimals0 \in TokenDecimals,
          decimals1 \in TokenDecimals, query \in QueryOutcomes, amount_in \in QuoteAmounts :
           calls = <<[dex |-> dex, query |-> query,
                      token_in |-> ConcentratedTokens(decimals0, decimals1)[i],
                      token_out |-> ConcentratedTokens(decimals0, decimals1)[3 - i],
                      amount_in |-> amount_in, done |-> FALSE, result |-> None]>>

\* one call of get_concentrated_price
GetConcentratedPrice ==
    /\ ~calls[1].done
    /\ LET c == calls[1]
       IN  calls' = [calls EXCEPT
               ![1].done = TRUE,
               ![1].result = get_concentrated_price(c.query, c.dex, c.token_in,
                                                    c.token_out, c.amount_in)]
    /\ UNCHANGED <<executor_vars, opportunities, effects, scan, fetcher, limiter>>

NextConcentrated == GetConcentratedPrice

SpecConcentrated == InitConcentrated /\ [][NextConcentrated]_vars

----------------------------------------------------------------------------
(* GasPriceFetcher and ETHPriceFetcher of src/utils/gas_price.py.  The     *)
(* clock time.time() is `now`; a gas price is an exact fraction of a gwei, *)
(* an ETH price an exact number of dollars.  A read of the chain either    *)
(* answers or raises an exception of some class.                           *)

MaxFetches == 3
MaxFetchTime == 1950

gas_cache_duration == 60
gas_stale_after == 300
eth_cache_duration == 300
eth_stale_after == 1800
fallback_gas_price == Frac(2, 100)
fallback_eth_price == Whole(3500)

CacheEntry(value, timestamp) == [value |-> value, timestamp |-> timestamp]

GasPriceFetcher__init ==
    [kind |-> "gas", cache |-> None, cache_duration |-> gas_cache_duration,
     fallback_count |-> 0, fetches |-> 0]
ETHPriceFetcher__init ==
    [kind |-> "eth", cache |-> None, cache_duration |-> eth_cache_duration,
     fallback_count |-> 0, fetches |-> 0]

\* the exception classes a read can raise: the four that get_gas_price_gwei names
\* in its except clause, and one of any other class (requests' own
\* ConnectionError and ReadTimeout are OSError, not the builtins of those names)
NamedInExcept == {"Web3Exception", "ValueError", "ConnectionError", "TimeoutError"}
ExceptionClasses == NamedInExcept \cup {"OSError"}

Raises(class) == [raises |-> class]
Answers(value) == [raises |-> "no", value |-> value]

\* except (Web3Exception, ValueError, ConnectionError, TimeoutError)
gas_except_catches(class) == class \in NamedInExcept

\* get_gas_price_gwei at current_time, the read of w3.eth.gas_price answering
\* a number of wei or raising: [fetcher after, raised, value returned, reads
\* issued]
get_gas_price_gwei(f, read, current_time) ==
    IF f.cache # None /\ current_time - f.cache.timestamp < f.cache_duration
    THEN [fetcher |-> f, raised |-> FALSE, value |-> f.cache.value, reads |-> 0]
    ELSE LET failure == IF read.raises # "no" THEN read.raises
                        ELSE IF read.value < 0 THEN "ValueError" ELSE "no"
         IN  IF failure = "no"
             THEN LET gas_price_gwei == Frac(read.value, 1000000000)
                  IN  [fetcher |-> [f EXCEPT !.cache = CacheEntry(gas_price_gwei, current_time),
                                             !.fallback_count = 0],
                       raised |-> FALSE, value |-> gas_price_gwei, reads |-> 1]
             ELSE IF ~gas_except_catches(failure)
             THEN [fetcher |-> f, raised |-> TRUE, value |-> None, reads |-> 1]
             ELSE IF f.cache # None /\ current_time - f.cache.timestamp < gas_stale_after
             THEN [fetcher |-> [f EXCEPT !.fallback_count = @ + 1],
                   raised |-> FALSE, value |-> f.cache.value, reads |-> 1]
             ELSE [fetcher |-> [f EXCEPT !.fallback_count = @ + 1,
                                         !.cache = CacheEntry(fallback_gas_price, current_time)],
                   raised |-> FALSE, value |-> fallback_gas_price, reads |-> 1]

\* get_eth_price_usd with a cache test that still serves an entry exactly
\* cache_duration old
get_eth_price_usd_inclusive(f, read, current_time) ==
    IF f.cache # None /\ current_time - f.cache.timestamp <= f.cache_duration
    THEN [fetcher |-> f, raised |-> FALSE, value |-> f.cache.value, reads |-> 0]
    ELSE IF read.raises = "no"
    THEN [fetcher |-> [f EXCEPT !.cache = CacheEntry(read.value, current_time),
                                !.fallback_count = 0],
          raised |-> FALSE, value |-> read.value, reads |-> 1]
    ELSE IF f.cache # None /\ current_time - f.cache.timestamp < eth_stale_after
    THEN [fetcher |-> [f EXCEPT !.fallback_count = @ + 1],
          raised |-> FALSE, value |-> f.cache.value, reads |-> 1]
    ELSE [fetcher |-> [f EXCEPT !.fallback_count = @ + 1,
                                !.cache = CacheEntry(fallback_eth_price, current_time)],
          raised |-> FALSE, value |-> fallback_eth_price, reads |-> 1]
\* get_eth_price_usd at current_time, the pool read answering a price or raising
\* (a missing pair and a zero WETH reserve are ValueErrors)
get_eth_price_usd(f, read, current_time) ==
    IF f.cache # None /\ current_time - f.cache.timestamp < f.cache_duration
    THEN [fetcher |-> f, raised |-> FALSE, value |-> f.cache.value, reads |-> 0]
    ELSE IF read.raises = "no"
    THEN [fetcher |-> [f EXCEPT !.cache = CacheEntry(read.value, current_time),
                                !.fallback_count = 0],
          raised |-> FALSE, value |-> read.value, reads |-> 1]
    ELSE IF f.cache # None /\ current_time - f.cache.timestamp < eth_stale_after
    THEN [fetcher |-> [f EXCEPT !.fallback_count = @ + 1],
          raised |-> FALSE, value |-> f.cache.value, reads |-> 1]
    ELSE [fetcher |-> [f EXCEPT !.fallback_count = @ + 1,
                                !.cache = CacheEntry(fallback_eth_price, current_time)],
          raised |-> FALSE, value |-> fallback_eth_price, reads |-> 1]

\* ChainlinkPriceOracle.CACHE_DURATION, seconds
CACHE_DURATION == 300

\* ChainlinkPriceOracle: the ETH entry of _cache (None when absent), the
\* network mode, and the oracle's own ETHPriceFetcher
ChainlinkPriceOracle__init(network_mode) ==
    [kind |-> "oracle", network_mode |-> network_mode, cache |-> None,
     dex_eth_fetcher |-> ETHPriceFetcher__init, fetches |-> 0]

PriceFeed(price, decimals, timestamp, source) ==
    [price |-> price, decimals |-> decimals, timestamp |-> timestamp, source |-> source]

\* _fetch_chainlink_price('ETH'): the aggregator's answer scaled by its
\* decimals, None when the call raises or the answer is not positive
_fetch_chainlink_price(read) ==
    IF read.raises # "no" \/ read.value.answer <= 0 THEN None
    ELSE Frac(read.value.answer, Pow(10, read.value.decimals))

\* ChainlinkPriceOracle.get_eth_price_usd at current_time: the cached feed while
\* it is younger than CACHE_DURATION, else Chainlink on mainnet, else the DEX
\* fetcher (which never raises): [oracle after, raised, feed returned, reads]
oracle_get_eth_price_usd(o, chainlink, read, current_time) ==
    IF o.cache # None /\ current_time - o.cache.timestamp < CACHE_DURATION
    THEN [fetcher |-> o, raised |-> FALSE, value |-> o.cache, reads |-> 0]
    ELSE LET price == IF o.network_mode = "mainnet"
                      THEN _fetch_chainlink_price(chainlink) ELSE None
             asked == IF o.network_mode = "mainnet" THEN 1 ELSE 0
         IN  IF price # None
             THEN LET feed == PriceFeed(price, 8, current_time, "chainlink")
                  IN  [fetcher |-> [o EXCEPT !.cache = feed],
                       raised |-> FALSE, value |-> feed, reads |-> asked]
             ELSE LET dex == get_eth_price_usd(o.dex_eth_fetcher, read, current_time)
                      feed == PriceFeed(dex.value, 18, current_time, "dex")
                  IN  [fetcher |-> [o EXCEPT !.cache = feed,
                                             !.dex_eth_fetcher = dex.fetcher],
                       raised |-> FALSE, value |-> feed, reads |-> asked + dex.reads]

\* the reads: 0.01 or 0.05 gwei, a negative answer, or an exception; 3000 or
\* 3600 dollars, or an exception
GasReads == {Answers(w) : w \in {-1, 10000000, 50000000}}
            \cup {Raises(class) : class \in ExceptionClasses}
EthReads == {Answers(Whole(p)) : p \in {3000, 3600}}
            \cup {Raises(class) : class \in ExceptionClasses}
\* the aggregator's rounds: 3100 dollars at two decimals, a zero answer, or an
\* exception
ChainlinkReads == {Answers([answer |-> a, decimals |-> 2]) : a \in {0, 310000}}
                  \cup {Raises("ConnectionError")}
\* what the DEX pool answers under the oracle
OracleDexReads == {Answers(Whole(3600)), Raises("ConnectionError")}
NetworkModes == {"mainnet", "testnet"}

InitFetcher ==
    /\ NoExecutor
    /\ opportunities = <<>>
    /\ effects = <<>>
    /\ scan = None
    /\ calls = <<>>
    /\ limiter = None
    /\ fetcher \in {GasPriceFetcher__init, ETHPriceFetcher__init}
                   \cup {ChainlinkPriceOracle__init(mode) : mode \in NetworkModes}

\* the record of a call: what was read, when, on which cache, and what came back
Fetched(read, answer) ==
    <<[kind |-> fetcher.kind, read |-> read, at |-> now, cache |-> fetcher.cache,
       raised |-> answer.raised, value |-> answer.value, reads |-> answer.reads]>>

\* one call of get_gas_price_gwei
GetGasPriceGwei ==
    /\ fetcher.kind = "gas"
    /\ fetcher.fetches < MaxFetches
    /\ \E read \in GasReads :
           LET answer == get_gas_price_gwei(fetcher, read, now)
           IN  /\ fetcher' = [answer.fetcher EXCEPT !.fetches = @ + 1]
               /\ calls' = Fetched(read, answer)
    /\ UNCHANGED <<executor_vars, opportunities, effects, scan, limiter>>

\* one call of get_eth_price_usd
GetEthPriceUsd ==
    /\ fetcher.kind = "eth"
    /\ fetcher.fetches < MaxFetches
    /\ \E read \in EthReads :
           LET answer == get_eth_price_usd(fetcher, read, now)
           IN  /\ fetcher' = [answer.fetcher EXCEPT !.fetches = @ + 1]
               /\ calls' = Fetched(read, answer)
    /\ UNCHANGED <<executor_vars, opportunities, effects, scan, limiter>>

\* one call of ChainlinkPriceOracle.get_eth_price_usd
GetOracleEthPrice ==
    /\ fetcher.kind = "oracle"
    /\ fetcher.fetches < MaxFetches
    /\ \E chainlink \in ChainlinkReads, read \in OracleDexReads :
           LET answer == oracle_get_eth_price_usd(fetcher, chainlink, read, now)
           IN  /\ fetcher' = [answer.fetcher EXCEPT !.fetches = @ + 1]
               /\ calls' = <<[kind |-> "oracle", read |-> read, chainlink |-> chainlink,
                              at |-> now, cache |-> fetcher.cache,
                              raised |-> answer.raised, value |-> answer.value,
                              reads |-> answer.reads]>>
    /\ UNCHANGED <<executor_vars, opportunities, effects, scan, limiter>>

\* time passes between calls
FetcherTick ==
    /\ now + TickStep <= MaxFetchTime
    /\ now' = now + TickStep
    /\ UNCHANGED <<cb, stats, pc, frame, log, last, dry_run, telegram,
                   private_mempool, history, fresh, sent, scanner_vars>>

NextFetcher == GetGasPriceGwei \/ GetEthPriceUsd \/ GetOracleEthPrice \/ FetcherTick

SpecFetcher == InitFetcher /\ [][NextFetcher]_vars

----------------------------------------------------------------------------
(* run_continuous_scan and main: the scan loop across ticks. scan.at is    *)
(* the loop's position, scan.exit how main ended; a pair's scan returns   *)
(* or raises, and a shutdown signal can arrive at any await.               *)

MaxScans == 3

\* await asyncio.sleep(3)
scan_interval == 3

\* "except Exception" around the pair loops: every class deriving from
\* Exception, which KeyboardInterrupt does not
tick_except_catches_named(class) == class \in NamedInExcept
tick_except_catches(class) == class \in ExceptionClasses

\* main: except KeyboardInterrupt logs the shutdown; except Exception logs a
\* fatal error and re-raises
main_exit(class) == IF class = "KeyboardInterrupt" THEN "shutdown" ELSE "fatal"

\* what a read of the gas price does inside a pair's scan
\* (estimate_transaction_cost_usd): it answers, or raises past
\* get_gas_price_gwei's except tuple
PairFaults == {"none", "OSError"}

\* the venues of the loop's ticks: each venue quotes one rate on all its
\* pools; no venue quotes, both quote the same, or DexB quotes more
LoopRates == {<<0, 0>>, <<200, 200>>, <<200, 202>>}
LoopVenueStates(token_in, token_out) ==
    {[d \in dexes |-> [h \in HopsOf(token_in, token_out) |->
                          IF d = "DexA" THEN rate[1] ELSE rate[2]]] :
        rate \in LoopRates}

InitScanLoop ==
    /\ NoExecutor
    /\ opportunities = <<>>
    /\ effects = <<>>
    /\ calls = <<>>
    /\ fetcher = None
    /\ limiter = None
    /\ \E cfg \in ScannerConfigs :
           scan = [enable_multi_hop |-> cfg.enable_multi_hop, max_hops |-> cfg.max_hops,
                   scan_count |-> 0, next |-> 1, at |-> "startup", exit |-> "running",
                   refreshed |-> FALSE, raised |-> "none", raised_in |-> 0]

\* run_continuous_scan up to its first pair: the initial gas and ETH price
\* reads are outside any try, so a raising read ends main; then the first
\* tick's refresh, whose failure is logged
StartScan ==
    /\ scan.at = "startup"
    /\ \E first \in PairFaults, refresh \in PairFaults :
           scan' = IF first # "none"
                   THEN [scan EXCEPT !.at = "exited", !.exit = main_exit(first)]
                   ELSE [scan EXCEPT !.at = "pairs", !.scan_count = 1, !.next = 1,
                                     !.refreshed = (refresh = "none")]
    /\ UNCHANGED <<executor_vars, opportunities, effects, calls, fetcher, limiter>>

\* await self.scan_pair(token_in, token_out, amount=1.0) for the next pair of
\* the tick; an exception the tick's except catches is logged and the loop
\* goes to its sleep, any other ends run_continuous_scan and reaches main
LoopScanPair ==
    /\ scan.at = "pairs"
    /\ LET ij == ScanOrder[scan.next]
           token_in == common_tokens[ij[1]]
           token_out == common_tokens[ij[2]]
       IN  \E venues \in LoopVenueStates(token_in.symbol, token_out.symbol),
              market \in Markets, fault \in PairFaults :
               LET r == scan_pair(Scanner, scan, venues, market, token_in, token_out,
                                  1, now)
                   class == IF r.raised THEN "ValueError"
                            ELSE IF fault # "none" /\ Len(r.prices) >= 2 THEN fault
                            ELSE "none"
                   sc == IF class = "none" THEN r.sc ELSE Scanner
               IN  /\ opportunities' = sc.opportunities
                   /\ effects' = sc.effects
                   /\ scan' =
                        IF class = "none"
                        THEN IF scan.next = Len(ScanOrder)
                             THEN [scan EXCEPT !.at = "sleep"]
                             ELSE [scan EXCEPT !.next = @ + 1]
                        ELSE IF tick_except_catches(class)
                        THEN [scan EXCEPT !.at = "sleep", !.raised = class,
                                          !.raised_in = scan.scan_count]
                        ELSE [scan EXCEPT !.at = "exited", !.raised = class,
                                          !.raised_in = scan.scan_count,
                                          !.exit = main_exit(class)]
    /\ UNCHANGED <<executor_vars, calls, fetcher, limiter>>

\* await asyncio.sleep(3), then the top of the loop: scan_count += 1 and the
\* refresh of the displayed prices every tenth scan
LoopSleep ==
    /\ scan.at = "sleep"
    /\ scan.scan_count < MaxScans
    /\ now' = now + scan_interval
    /\ \E refresh \in PairFaults :
           scan' = [scan EXCEPT !.at = "pairs", !.scan_count = @ + 1, !.next = 1,
                                !.raised = "none",
                                !.refreshed = IF (scan.scan_count + 1) % 10 = 1
                                              THEN refresh = "none" ELSE @]
    /\ UNCHANGED <<cb, stats, pc, frame, log, last, dry_run, telegram,
                   private_mempool, history, fresh, sent,
                   opportunities, effects, calls, fetcher, limiter>>

\* the external shutdown signal: KeyboardInterrupt raised at an await of the
\* loop, which no except of run_continuous_scan catches
Shutdown ==
    /\ scan.at \in {"pairs", "sleep"}
    /\ scan' = [scan EXCEPT
           !.at = IF tick_except_catches("KeyboardInterrupt") /\ scan.at = "pairs"
                  THEN "sleep" ELSE "exited",
           !.exit = IF tick_except_catches("KeyboardInterrupt") /\ scan.at = "pairs"
                    THEN @ ELSE main_exit("KeyboardInterrupt")]
    /\ UNCHANGED <<executor_vars, opportunities, effects, calls, fetcher, limiter>>

NextScanLoop == StartScan \/ LoopScanPair \/ LoopSleep \/ Shutdown

SpecScanLoop == InitScanLoop /\ [][NextScanLoop]_vars

----------------------------------------------------------------------------
(* evaluate_and_execute on one given opportunity: a dry-run executor with  *)
(* an operational breaker is handed an opportunity, kept in calls[1].      *)

\* the opportunities handed in: at most one required field missing, a profit
\* below, at and above the threshold, known and unknown tokens and venues
MissingFields == {{}} \cup {{f} : f \in required_fields}
GivenProfits == {PROFIT_THRESHOLD_PCT - 1, PROFIT_THRESHOLD_PCT, PROFIT_THRESHOLD_PCT + 1}
GivenOpportunities ==
    {[fields |-> required_fields \ missing, profit_pct |-> profit,
      token_in |-> token_in, token_out |-> token_out,
      buy_dex |-> buy_dex, sell_dex |-> sell_dex] :
        missing \in MissingFields, profit \in GivenProfits,
        token_in \in {"WETH", "UNKNOWN"}, token_out \in {"USDC", "UNKNOWN"},
        buy_dex \in {"DexA", "UnknownDex"}, sell_dex \in {"DexB", "UnknownDex"}}

InitValidate ==
    /\ NoExecutor
    /\ opportunities = <<>>
    /\ effects = <<>>
    /\ \E opp \in GivenOpportunities : calls = <<[opp |-> opp]>>
    /\ scan = None
    /\ fetcher = None
    /\ limiter = None

\* the one call of evaluate_and_execute, with the opportunity handed in
EvaluateGiven ==
    /\ stats.total_opportunities_evaluated = 0
    /\ evaluate_and_execute_on("loop", {calls[1].opp})

NextValidate == EvaluateGiven

SpecValidate == InitValidate /\ [][NextValidate]_vars

----------------------------------------------------------------------------
(* RateLimiter, src/utils/rate_limiter.py. limiter.time is what time.time() *)
(* reads; limiter.at is where each caller of acquire() stands: idle,       *)
(* waiting for the lock, entered (the lock is its own, the body not yet    *)
(* run) or sleeping inside the body with the lock held; limiter.granted    *)
(* keeps the time of every call recorded, pruned or not.                   *)

\* each caller starts acquire() at most MaxAcquires times between them
MaxAcquires == 5
\* the limiter's clock runs up to MaxLimiterTime seconds
MaxLimiterTime == 4

Callers == {"first", "second"}
LimiterMaxCalls == {1, 2}
LimiterPeriods == {1, 2}

RateLimiter__init(max_calls, period) ==
    [max_calls |-> max_calls, period |-> period, calls |-> <<>>,
     waiters |-> <<>>, locked |-> FALSE, at |-> [c \in Callers |-> "idle"],
     wake |-> None, time |-> 0, granted |-> <<>>, acquires |-> 0]

\* while self.calls and self.calls[0] < now - self.period: self.calls.popleft()
RECURSIVE popleft_old(_, _)
popleft_old(calls_, cutoff) ==
    IF calls_ # <<>> /\ Head(calls_) < cutoff
    THEN popleft_old(Tail(calls_), cutoff) ELSE calls_

\* leaving "async with self._lock": the lock goes to the first waiter, which
\* runs the body when the event loop resumes it
release(l) ==
    IF l.waiters = <<>> THEN [l EXCEPT !.locked = FALSE]
    ELSE [l EXCEPT !.at[Head(l.waiters)] = "entered", !.waiters = Tail(l.waiters)]

\* self.calls.append(time.time()) and the end of the with block
record_call(l, c, calls_) ==
    release([l EXCEPT !.calls = Append(calls_, l.time),
                      !.granted = Append(@, l.time),
                      !.at[c] = "idle", !.wake = None])

\* the body of acquire() under the lock, up to its await or its end
acquire_body(l, c) ==
    LET now_ == l.time
        kept == popleft_old(l.calls, now_ - l.period)
    IN  IF Len(kept) >= l.max_calls /\ l.period - (now_ - Head(kept)) > 0
        THEN [l EXCEPT !.calls = kept, !.at[c] = "sleeping",
                       !.wake = <<now_ + (l.period - (now_ - Head(kept)))>>]
        ELSE record_call(l, c, kept)

\* after await asyncio.sleep(sleep_time): prune again and record the call
acquire_wake(l, c) == record_call(l, c, popleft_old(l.calls, l.time - l.period))

InitRateLimiter ==
    /\ NoExecutor
    /\ opportunities = <<>>
    /\ effects = <<>>
    /\ scan = None
    /\ calls = <<>>
    /\ fetcher = None
    /\ limiter \in {RateLimiter__init(m, p) : m \in LimiterMaxCalls, p \in LimiterPeriods}

LimiterStep(after) ==
    /\ limiter' = after
    /\ UNCHANGED <<executor_vars, opportunities, effects, calls, scan, fetcher>>

\* a caller starts acquire(): it takes the free lock and runs the body, or
\* queues behind the holder
Acquire(c) ==
    /\ limiter.at[c] = "idle"
    /\ limiter.acquires < MaxAcquires
    /\ LET l == [limiter EXCEPT !.acquires = @ + 1]
       IN  IF ~l.locked
           THEN LimiterStep(acquire_body([l EXCEPT !.locked = TRUE], c))
           ELSE LimiterStep([l EXCEPT !.at[c] = "waiting", !.waiters = Append(@, c)])

\* a waiter that was handed the lock is resumed and runs the body
AcquireEnter(c) ==
    /\ limiter.at[c] = "entered"
    /\ LimiterStep(acquire_body(limiter, c))

\* asyncio.sleep returns, no earlier than the time slept for
AcquireWake(c) ==
    /\ limiter.at[c] = "sleeping"
    /\ limiter.time >= limiter.wake[1]
    /\ LimiterStep(acquire_wake(limiter, c))

\* a second passes
LimiterTick ==
    /\ limiter.time < MaxLimiterTime
    /\ LimiterStep([limiter EXCEPT !.time = @ + 1])

NextRateLimiter ==
    \/ \E c \in Callers : Acquire(c)
    \/ \E c \in Callers : AcquireEnter(c)
    \/ \E c \in Callers : AcquireWake(c)
    \/ LimiterTick

SpecRateLimiter == InitRateLimiter /\ [][NextRateLimiter]_vars

----------------------------------------------------------------------------
(* Properties *)

Count(l, e) == Len(SelectSeq(l, LAMBDA z : z = e))
Mentions(l, S) == \E i \in 1..Len(l) : l[i] \in S
IsPrefix(a, b) == Len(a) <= Len(b) /\ \A i \in 1..Len(a) : a[i] = b[i]
SetMax(S) == CHOOSE m \in S : \A n \in S : n <= m

StageOrder ==
    <<"validate", "check_slippage", "simulate", "build_transaction",
      "sign_transaction", "send_transaction", "wait_for_receipt">>
StageNames == {StageOrder[i] : i \in 1..Len(StageOrder)}
ExecuteStages ==
    {"build_transaction", "sign_transaction", "send_transaction", "wait_for_receipt"}
Exceptions ==
    {"KeyError", "ValueError", "InsufficientProfitError", "SlippageExceededError",
     "AttributeError", "ExecutionError", "Web3Exception", "TimeExhausted",
     "CircuitBreakerTrippedError"}
StagesOf(l) == SelectSeq(l, LAMBDA e : e \in StageNames)

\* a step in which evaluate_and_execute is entered
Called ==
    stats'.total_opportunities_evaluated = stats.total_opportunities_evaluated + 1
\* what the scan loop's call has run after the step
LoopLogAfter == IF pc'["loop"] = "idle" THEN last'.log ELSE log'["loop"]

TrippedInCooldown == cb.tripped_at # None /\ now - cb.tripped_at[1] < cooldown
CooldownElapsed == cb.tripped_at # None /\ now - cb.tripped_at[1] >= cooldown

\* C1: under record_failure calls alone, the breaker is tripped exactly when some
\* call found max_failures calls (itself included) in the time_window seconds
\* ending at it, and the trip time is the time of the latest such call.
InWindow(k) == Cardinality({j \in 1..k : history[j] > history[k] - time_window})
TripPoints == {k \in 1..Len(history) : InWindow(k) >= max_failures}
C1_TrippedIffNFailuresInWindow ==
    cb.tripped_at = IF TripPoints = {} THEN None ELSE <<history[SetMax(TripPoints)]>>
\* tripped, with older failures already pruned from the list
C1_Witness ==
    /\ cb.tripped_at # None
    /\ Len(cb.failures) < Len(history)

\* C2: a call made while the breaker is tripped and cooling down returns None
\* having run no stage, recorded no failure and sent no error notification, and
\* leaves the breaker as it was.
C2_RefusedWhileTripped ==
    [][(TrippedInCooldown /\ Called) =>
        /\ pc' = pc
        /\ last'.result = "None"
        /\ last'.log = <<"CircuitBreakerTrippedError">>
        /\ cb' = cb
        /\ stats' = [stats EXCEPT !.total_opportunities_evaluated = @ + 1]]_vars
C2_Witness ==
    /\ TrippedInCooldown
    /\ last.task \in Tasks
    /\ last.log = <<"CircuitBreakerTrippedError">>

\* C3: a call made once cooldown seconds have passed since the trip resets the
\* breaker, goes on to read and validate the opportunity, and leaves in the failure
\* list only what it recorded itself; the trip time is cleared by no step taken
\* before the cooldown has passed.
C3_ResetAfterCooldownOnly ==
    [][/\ (CooldownElapsed /\ Called) =>
            /\ Len(LoopLogAfter) >= 2
            /\ LoopLogAfter[1] = "reset"
            /\ LoopLogAfter[2] \in {"validate", "KeyError"}
            /\ cb'.tripped_at = None
            /\ Len(cb'.failures) = Count(LoopLogAfter, "record_failure")
       /\ (cb.tripped_at # None /\ cb'.tripped_at = None) => CooldownElapsed]_vars
C3_Witness ==
    /\ Len(last.log) >= 2
    /\ last.log[1] = "reset"
    /\ last.log[2] = "validate"
    /\ cb.tripped_at = None

\* C4: the step that counts a successful execution leaves the failure list empty,
\* and a step that sets a new trip time comes only after max_failures
\* record_failure calls since the last success, all still inside the window.
C4_SuccessClearsFailures ==
    [][/\ (stats'.successful = stats.successful + 1) => cb'.failures = <<>>
       /\ (cb'.tripped_at # None /\ cb'.tripped_at # cb.tripped_at) =>
            /\ fresh' >= max_failures
            /\ Len(cb'.failures) >= max_failures
            /\ \A i \in 1..Len(cb'.failures) : cb'.failures[i] > now - time_window]_vars
\* a failed execution, then a confirmed one
C4_Witness ==
    /\ stats.total_opportunities_evaluated = 2
    /\ stats.failed >= 1
    /\ stats.successful = 1
    /\ cb.failures = <<>>

\* C5: in dry run no call builds, signs or sends a transaction or waits for a
\* receipt; a call returns 'simulated' exactly when validation, slippage check
\* and simulation all passed, and None otherwise.
PassedAllChecks(l) ==
    SelectSeq(l, LAMBDA e : e # "reset") = <<"validate", "check_slippage", "simulate">>
C5_DryRunNeverSubmits ==
    dry_run =>
        /\ \A t \in Tasks : ~Mentions(log[t], ExecuteStages)
        /\ ~Mentions(last.log, ExecuteStages)
        /\ stats.executed = 0
        /\ stats.failed = 0
        /\ last.task \in Tasks =>
               last.result = IF PassedAllChecks(last.log) THEN "simulated" ELSE "None"
C5_Witness ==
    /\ dry_run
    /\ last.result = "simulated"

\* C6: the stages a call has run are an initial part of Validate, SlippageCheck,
\* Simulate, build, sign, send, receipt, in that order; no stage runs after an
\* exception; in dry run nothing runs after Simulate.
WellOrdered(l) ==
    /\ IsPrefix(StagesOf(l), StageOrder)
    /\ \A i \in 1..Len(l) :
           l[i] \in Exceptions => \A j \in (i + 1)..Len(l) : l[j] \notin StageNames
    /\ dry_run => ~Mentions(l, ExecuteStages)
C6_StagesInOrder ==
    /\ \A t \in Tasks : WellOrdered(log[t])
    /\ WellOrdered(last.log)
C6_Witness ==
    /\ last.result = "success"
    /\ StagesOf(last.log) = StageOrder

\* C7: a call that ended in an exception other than the breaker's refusal has
\* recorded exactly one failure and handed exactly one error notification to the
\* notification manager.
C7_OneFailurePerFailedCall ==
    (last.task \in Tasks /\ Mentions(last.log, Exceptions \ {"CircuitBreakerTrippedError"})) =>
        /\ Count(last.log, "record_failure") = 1
        /\ Count(last.log, "send_error") = 1

\* C8: a call rejected with InsufficientProfitError sends no error notification:
\* no error alert goes out to Telegram for it.
C8_NoAlertForInsufficientProfit ==
    Mentions(last.log, {"InsufficientProfitError"}) =>
        ~Mentions(last.log, {"send_error_alert"})

\* C9: at most one call of evaluate_and_execute is in flight at any time.
C9_OneInFlight == Cardinality({t \in Tasks : pc[t] # "idle"}) <= 1

\* C10: with prefer_private, a call invokes the available providers in list
\* order from the first, goes on only past providers that returned no hash,
\* returns what the last provider invoked returned, and gives up before the end
\* of the list only when told not to retry.
Available == SelectSeq(private_mempool.providers, is_available)
InOrderUntilFirstHash(c) ==
    LET n == Len(c.invoked)
    IN  /\ n >= 1
        /\ n <= Len(Available)
        /\ \A i \in 1..n : c.invoked[i] = Available[i].name
        /\ \A i \in 1..(n - 1) : ~c.outs[c.invoked[i]]
        /\ c.tx_hash = Returned(c.outs, c.invoked[n])
        /\ (c.retry_on_failure /\ c.tx_hash = None) => n = Len(Available)
C11_NoHashIsSubmissionError ==
    [][Mentions(LoopLogAfter, {"no_provider_sent"}) =>
        /\ ~Mentions(LoopLogAfter, {"wait_for_receipt", "record_success", "send_execution"})
        /\ Count(LoopLogAfter, "record_failure") >= 1
        /\ stats'.successful = stats.successful
        /\ stats'.executed = stats.executed
        /\ stats'.total_profit_usd = stats.total_profit_usd
        /\ pc'["loop"] = "idle" => last'.result = "None"]_vars
\* the relay and the public mempool both failed
C11_Witness ==
    /\ ~dry_run
    /\ Len(private_mempool.providers) >= 2
    /\ last.task \in Tasks
    /\ Mentions(last.log, {"no_provider_sent"})
    /\ last.result = "None"
    /\ cb.failures # <<>>

\* C12: whatever endpoints are configured, the manager's provider list is not
\* empty, holds the public mempool exactly once and in the last place, holds
\* Flashbots exactly when its endpoint is set and PrivateRPC exactly when its
\* endpoint is set, Flashbots before PrivateRPC, and get_active_provider names a
\* provider.
NamesOf(m) == [i \in 1..Len(m.providers) |-> m.providers[i].name]
C12_PublicMempoolLast ==
    \A f \in BOOLEAN, r \in BOOLEAN, p \in BOOLEAN :
        private_mempool = PrivateMempoolManager__init(f, r, p) =>
            LET names == NamesOf(private_mempool)
                n == Len(names)
            IN  /\ n >= 1
                /\ names[n] = "StandardMempool"
                /\ Count(names, "StandardMempool") = 1
                /\ Count(names, "Flashbots") = IF f THEN 1 ELSE 0
                /\ Count(names, "PrivateRPC") = IF r THEN 1 ELSE 0
                /\ (f /\ r) => names[1] = "Flashbots" /\ names[2] = "PrivateRPC"
                /\ get_active_provider(private_mempool) # "None"
                /\ get_active_provider(private_mempool) = names[1]
\* both private endpoints configured, and the manager has been used
C12_Witness ==
    /\ NamesOf(private_mempool) = <<"Flashbots", "PrivateRPC", "StandardMempool">>
    /\ get_active_provider(private_mempool) = "Flashbots"
    /\ sent # <<>>

\* C13: with prefer_private off, a call invokes the public mempool provider and
\* no other, whatever it returns, and returns what it returned.
C13_AlwaysPublicMode ==
    ~private_mempool.prefer_private =>
        \A k \in 1..Len(sent) :
            /\ sent[k].invoked = <<"StandardMempool">>
            /\ sent[k].tx_hash = Returned(sent[k].outs, "StandardMempool")
\* private providers are configured and would have sent, the public send failed
C13_Witness ==
    /\ ~private_mempool.prefer_private
    /\ Len(private_mempool.providers) = 3
    /\ \E k \in 1..Len(sent) :
           /\ sent[k].outs = [n \in ProviderNames |-> n # "StandardMempool"]
           /\ sent[k].tx_hash = None

\* C14: _check_arbitrage_direction appends an opportunity exactly when the net
\* profit percentage is at least PROFIT_THRESHOLD * 100 and the net profit in USD
\* is at least MIN_PROFIT_USD, both bounds included; otherwise the list is left
\* as it was.
C14_EmittedIffBothFloors ==
    calls[1].done =>
        LET a == calls[1].args
            market == calls[1].market
            usd == gross_profit_usd(a, market) - gas_cost_usd(a, market)
                   - flashloan_fee_usd(a, market)
            clears_pct == a.amount * a.buy_price > 0
                          /\ usd * 10000 >= PROFIT_THRESHOLD_PCT * (a.amount * a.buy_price)
            clears_usd == usd >= MIN_PROFIT_USD * 10000
        IN  IF clears_pct /\ clears_usd
            THEN /\ Len(opportunities) = 1
                 /\ opportunities[1].buy_price = a.buy_price
                 /\ opportunities[1].sell_price = a.sell_price
            ELSE opportunities = <<>> /\ effects = <<>>
\* an opportunity exactly on both floors: 0.5 % and one dollar
C14_Witness ==
    /\ calls[1].done
    /\ Len(opportunities) = 1
    /\ net_profit_usd(calls[1].args, calls[1].market) = MIN_PROFIT_USD * 10000
    /\ net_profit_pct_after_gas(calls[1].args, calls[1].market).num
           = PROFIT_THRESHOLD_PCT * net_profit_pct_after_gas(calls[1].args, calls[1].market).den

\* C15: after find_arbitrage, any two quotes have at most one opportunity between
\* them and none when their prices are equal; every opportunity has
\* buy_price < sell_price, its buy_dex is the key of a quote at buy_price and its
\* sell_dex the key of another quote at sell_price.
Between(i, j) ==
    {k \in 1..Len(opportunities) :
        {opportunities[k].buy_dex, opportunities[k].sell_dex}
            = {calls[1].prices[i].key, calls[1].prices[j].key}}
C15_CheaperBuysDearerSells ==
    calls[1].done =>
        LET prices == calls[1].prices
            n == Len(prices)
        IN  /\ \A i \in 1..n : \A j \in (i + 1)..n :
                   /\ Cardinality(Between(i, j)) <= 1
                   /\ prices[i].quote.price = prices[j].quote.price => Between(i, j) = {}
            /\ \A k \in 1..Len(opportunities) :
                   LET opp == opportunities[k]
                   IN  /\ opp.buy_price < opp.sell_price
                       /\ \E i \in 1..n, j \in 1..n :
                              /\ i # j
                              /\ prices[i].key = opp.buy_dex
                              /\ prices[i].quote.price = opp.buy_price
                              /\ prices[j].key = opp.sell_dex
                              /\ prices[j].quote.price = opp.sell_price
\* the later quote of the dict is the cheaper one and buys
C15_Witness ==
    /\ calls[1].done
    /\ \E k \in 1..Len(opportunities) :
           /\ opportunities[k].buy_dex = calls[1].prices[2].key
           /\ opportunities[k].sell_dex = calls[1].prices[1].key
    /\ \E i \in 1..Len(calls[1].prices) : \E j \in (i + 1)..Len(calls[1].prices) :
           calls[1].prices[i].quote.price = calls[1].prices[j].quote.price

\* C19: two routes find_routes returns hold the same tokens only when they are
\* the two 4-token routes through the same two bridge tokens, taken in opposite
\* order, which max_hops = 3 allows; below 3 hops no two returned routes are
\* permutations of one another.
TokensOf(r) == {r[i] : i \in 1..Len(r)}
SameTokens(r1, r2) ==
    /\ Len(r1) = Len(r2)
    /\ \A tok \in TokensOf(r1) \cup TokensOf(r2) : Count(r1, tok) = Count(r2, tok)
Routes == calls[1].result.routes
Returned_routes == calls[1].done /\ ~calls[1].result.raised
C19_PermutationsOnlyByBridgeOrder ==
    Returned_routes =>
        \A i \in 1..Len(Routes), j \in 1..Len(Routes) :
            (i # j /\ SameTokens(Routes[i], Routes[j])) =>
                /\ calls[1].max_hops = 3
                /\ Len(Routes[i]) = 4
                /\ Routes[i][2] = Routes[j][3]
                /\ Routes[i][3] = Routes[j][2]
                /\ Routes[i][2] # Routes[i][3]
\* duplicates among the bridge tokens, and both orders of two of them returned
C19_Witness ==
    /\ Returned_routes
    /\ Len(calls[1].base_tokens) > Cardinality(TokensOf(calls[1].base_tokens))
    /\ \E i \in 1..Len(Routes), j \in 1..Len(Routes) :
           i # j /\ SameTokens(Routes[i], Routes[j])
\* C19 as claimed: no two returned routes are permutations of one another.
C19_NoTwoPermutations ==
    Returned_routes =>
        \A i \in 1..Len(Routes), j \in 1..Len(Routes) :
            i # j => ~SameTokens(Routes[i], Routes[j])

\* C20: every returned route starts with token_in, ends with token_out, holds no
\* token twice, has at most max_hops hops and occurs once in the result; when
\* available_pairs is given, each two consecutive tokens of it are a pair of
\* available_pairs in one direction or the other.
C20_RoutesWellFormed ==
    Returned_routes =>
        \A k \in 1..Len(Routes) :
            LET r == Routes[k]
                c == calls[1]
            IN  /\ Len(r) >= 2
                /\ r[1] = c.token_in
                /\ r[Len(r)] = c.token_out
                /\ Cardinality(TokensOf(r)) = Len(r)
                /\ Len(r) - 1 <= c.max_hops
                /\ \A l \in 1..Len(Routes) : l # k => Routes[l] # r
                /\ c.available_pairs.given =>
                       \A i \in 1..(Len(r) - 1) :
                           \/ <<r[i], r[i + 1]>> \in c.available_pairs.pairs
                           \/ <<r[i + 1], r[i]>> \in c.available_pairs.pairs
\* a bridge list with a duplicate and an endpoint, a filter, and routes of one
\* and of two hops, one of them over a pair listed the other way round
C20_Witness ==
    /\ Returned_routes
    /\ Len(calls[1].base_tokens) > Cardinality(TokensOf(calls[1].base_tokens))
    /\ calls[1].token_in \in TokensOf(calls[1].base_tokens)
    /\ calls[1].available_pairs.given
    /\ {Len(Routes[k]) : k \in 1..Len(Routes)} = {2, 3}
    /\ \E k \in 1..Len(Routes) :
           <<Routes[k][1], Routes[k][2]>> \notin calls[1].available_pairs.pairs

\* C16: with multi-hop routing enabled, after scan_pair the quote set holds, for
\* every multi-hop route find_routes generates for the pair and every dex whose
\* pools quote each hop of it, an entry under that route's key, tagged with the
\* route and with len(route) - 1 hops.
LastScan == scan.last[1]
GeneratedRoutes ==
    SelectSeq(find_routes(scanner_base_tokens, LastScan.token_in, LastScan.token_out,
                          NoPairs, scan.max_hops).routes,
              LAMBDA route : Len(route) > 2)
EveryHopQuoted(dex, route) ==
    \A i \in 1..(Len(route) - 1) : LastScan.venues[dex.name][<<route[i], route[i + 1]>>] # 0
C16_MultiHopQuotesCollected ==
    (scan.last # None /\ scan.enable_multi_hop /\ ~LastScan.raised) =>
        \A r \in 1..Len(GeneratedRoutes), d \in 1..Len(dex_list) :
            EveryHopQuoted(dex_list[d], GeneratedRoutes[r]) =>
                \E k \in 1..Len(LastScan.prices) :
                    /\ LastScan.prices[k].key = route_key(dex_list[d], GeneratedRoutes[r])
                    /\ LastScan.prices[k].quote.route = GeneratedRoutes[r]
                    /\ LastScan.prices[k].quote.num_hops = Len(GeneratedRoutes[r]) - 1

\* C17: when a tick of the scan loop has ended, every opportunity emitted so far
\* has been passed to evaluate_and_execute exactly once.
TickEnded == scan.pair_scans > 0 /\ scan.next = 1
C17_HandedToExecutionOnce ==
    TickEnded =>
        \A k \in 1..Len(opportunities) : Count(effects, <<"evaluate_and_execute", k>>) = 1

\* C18: the opportunity list only grows, and when a tick of the scan loop has
\* ended every opportunity emitted so far has been appended once, logged, and
\* sent to the notification manager as an opportunity-found event.
C18_AppendedLoggedNotified ==
    [][/\ IsPrefix(opportunities, opportunities')
       /\ (scan'.pair_scans > 0 /\ scan'.next = 1) =>
              \A k \in 1..Len(opportunities') :
                  /\ Count(effects', <<"append", k>>) = 1
                  /\ Count(effects', <<"log_opportunity", k>>) = 1
                  /\ Count(effects', <<"send_opportunity", k>>) >= 1]_vars

Distinct(s) == \A i, j \in 1..Len(s) : i # j => s[i] # s[j]

\* start, distinct intermediate tokens other than start, start
CircularPath(p, start) ==
    /\ Len(p) >= 3
    /\ p[1] = start /\ p[Len(p)] = start
    /\ Distinct(SubSeq(p, 2, Len(p) - 1))
    /\ \A k \in 2..(Len(p) - 1) : p[k] # start

\* C21: a call of find_arbitrage_paths that passes validation returns at most
\* max_paths paths, whatever max_paths is, and every path it returns starts and
\* ends with the start token with distinct intermediate tokens.
C21_NeverMoreThanMaxPaths ==
    \A k \in 1..Len(calls) :
        (calls[k].done /\ ~calls[k].result.raised) =>
            /\ Len(calls[k].result.paths) <= calls[k].max_paths
            /\ \A i \in 1..Len(calls[k].result.paths) :
                   CircularPath(calls[k].result.paths[i], calls[k].start_token_symbol)

\* the naive linear sum n * f * 100 for the route and fee of a call, over the
\* denominator of the reported percentage
NaiveFeePct(c) ==
    LET n == Len(c.route) - 1
    IN  [num |-> n * c.fee_per_swap * Pow(FeeDen, n - 1), den |-> Pow(FeeDen, n) \div 100]

\* a call that returned a RouteInfo for at least two swaps at a fee above 0
CompoundingCase(c) ==
    /\ c.done /\ ~c.result.raised
    /\ c.result.info.num_swaps >= 2
    /\ c.fee_per_swap > 0

\* C22 (as amended): for every route of n >= 2 swaps and per-swap fee f with
\* 0 < f < 1, the total fee estimate_route_cost reports, (1-(1-f)^n)*100, is
\* strictly less than the naive linear sum n*f*100.
C22_CompoundBelowLinear ==
    \A k \in 1..Len(calls) :
        CompoundingCase(calls[k]) =>
            FracLess(calls[k].result.info.estimated_fee_pct, NaiveFeePct(calls[k]))

\* a three-swap route at the default fee 0.003 has been costed
C22_Witness ==
    /\ CompoundingCase(calls[1])
    /\ calls[1].fee_per_swap = 3
    /\ calls[1].result.info.num_swaps = 3

\* C22 as stated: the reported total fee is strictly greater than the naive
\* linear sum n*f*100.
C22_CompoundAboveLinear ==
    \A k \in 1..Len(calls) :
        CompoundingCase(calls[k]) =>
            FracLess(NaiveFeePct(calls[k]), calls[k].result.info.estimated_fee_pct)

\* reserves above 0, a fee in [0, 1) and an amount above 0, and the call made
PricedCase(c) ==
    /\ c.done
    /\ c.pool # NoPair /\ c.pool # ReadFails
    /\ c.pool.reserve0 > 0 /\ c.pool.reserve1 > 0
    /\ c.amount_in.num > 0

\* a * Rout / (Rin + a) on the reserves the result reports
FeeFreeOutput(r) ==
    FracDiv(FracMul(r.amount_in, r.reserve_out), FracAdd(r.reserve_in, r.amount_in))

\* C23 (as amended): for all reserves above 0, every fee f in [0, 1) and every
\* amount above 0, calculate_v2_slippage returns an amount_out that is strictly
\* positive, strictly less than the fee-free constant-product output
\* a*Rout/(Rin+a) when f > 0 and equal to it when f = 0, and a slippage_pct >= 0.
C23_OutputBelowFeeFree ==
    \A k \in 1..Len(calls) :
        PricedCase(calls[k]) =>
            LET r == calls[k].result
                f == dex_fee(calls[k].dex)
            IN  /\ r # None
                /\ r.amount_out.num > 0
                /\ f.num > 0 => FracLess(r.amount_out, FeeFreeOutput(r))
                /\ f.num = 0 => r.amount_out = FeeFreeOutput(r)
                /\ r.slippage_pct.num >= 0

\* a priced call at the default fee, and one at fee 0
C23_Witness ==
    /\ PricedCase(calls[1])
    /\ "fee" \notin DOMAIN calls[1].dex
    /\ calls[1].pool.reserve0 = 200 /\ calls[1].pool.reserve1 = 30
    /\ calls[1].amount_in = Whole(3)
    /\ calls[1].token_in.decimals = 1 /\ calls[1].token_out.decimals = 0

\* C23 as stated: amount_out is strictly less than the fee-free output for
\* every fee in [0, 1), the fee 0 included.
C23_OutputStrictlyBelowFeeFree ==
    \A k \in 1..Len(calls) :
        PricedCase(calls[k]) =>
            LET r == calls[k].result
            IN  /\ r # None
                /\ r.amount_out.num > 0
                /\ FracLess(r.amount_out, FeeFreeOutput(r))
                /\ r.slippage_pct.num >= 0

\* the slippage of each leg, computed apart from the check: the buy leg on the
\* amount, the sell leg on what the buy leg gives out
BuyLeg(c) == calculate_v2_slippage(c.buy_dex, c.buy_pool, c.token_in, c.token_out, c.amount)
SellLeg(c) ==
    calculate_v2_slippage(c.sell_dex, c.sell_pool, c.token_out, c.token_in,
                          BuyLeg(c).amount_out)

\* both venues are v2 ones and both pools give a slippage
BothLegsComputed(c) ==
    /\ c.done
    /\ c.buy_dex.type = "uniswap_v2" /\ c.sell_dex.type = "uniswap_v2"
    /\ BuyLeg(c) # None
    /\ SellLeg(c) # None

\* C24: when both legs are computed, validate_arbitrage_slippage reports as total
\* exactly the buy-leg slippage plus the slippage of the sell leg computed on the
\* buy leg's output, and is_valid is true exactly when that sum is at or below
\* max_slippage_pct (equality passes).
C24_ValidIffSumWithinMax ==
    \A k \in 1..Len(calls) :
        BothLegsComputed(calls[k]) =>
            LET c == calls[k]
                sum == FracAdd(BuyLeg(c).slippage_pct, SellLeg(c).slippage_pct)
            IN  /\ c.result.results # None
                /\ c.result.results.sell.amount_in = BuyLeg(c).amount_out
                /\ c.result.results.total_slippage_pct = sum
                /\ c.result.is_valid = FracLeq(sum, c.max_slippage_pct)
                /\ c.result.results.is_valid = c.result.is_valid

\* a check whose two legs sum to exactly the bound of 70 %, and passes
C24_Witness ==
    /\ BothLegsComputed(calls[1])
    /\ calls[1].max_slippage_pct = Whole(70)
    /\ calls[1].result.results.total_slippage_pct = Whole(70)
    /\ calls[1].result.is_valid

\* a leg's pool cannot be resolved: the venue is not of the family whose reserves
\* are read, or calculate_v2_slippage has no answer for it
Unresolved(dex, pool, token_in, token_out, amount) ==
    \/ dex.type # "uniswap_v2"
    \/ calculate_v2_slippage(dex, pool, token_in, token_out, amount) = None

\* C25: whenever the pool of either leg cannot be resolved, the check returns
\* is_valid = false; it never returns true with a leg's slippage left out.
C25_FailsClosed ==
    \A k \in 1..Len(calls) :
        LET c == calls[k]
        IN  (c.done /\ c.result.is_valid) =>
                /\ ~Unresolved(c.buy_dex, c.buy_pool, c.token_in, c.token_out, c.amount)
                /\ ~Unresolved(c.sell_dex, c.sell_pool, c.token_out, c.token_in,
                               BuyLeg(c).amount_out)
                /\ c.result.results.buy # None
                /\ c.result.results.sell # None

\* scan_pair keeps a quote for price comparison when it is truthy: a number other than 0
EntersComparison(price) == price # None /\ price.num # 0

\* C26: neither concentrated-liquidity provider has its unit convention resolved
\* (Ambient takes the price as a wei ratio without knowing, iZiSwap has no
\* quoter), so no query to one of them returns a numeric output amount that
\* enters price comparison.
C26_UnresolvedUnitsNoQuote ==
    \A k \in 1..Len(calls) : calls[k].done => ~EntersComparison(calls[k].result)

\* a call that went to the chain (no fresh cache) and whose read failed
ReadFailed(c) ==
    /\ ~(c.cache # None /\ c.at - c.cache.timestamp <
            (IF c.kind = "gas" THEN gas_cache_duration ELSE eth_cache_duration))
    /\ \/ c.read.raises # "no"
       \/ c.kind = "gas" /\ c.read.value < 0

\* the value the claim gives for a failed read with bound `stale_after`
CachedOrDefault(c, stale_after, default) ==
    IF c.cache # None /\ c.at - c.cache.timestamp < stale_after
    THEN c.cache.value ELSE default

\* C27: when the read fails, get_gas_price_gwei returns the cached value if it is
\* less than 300 s old and else 0.02 gwei, get_eth_price_usd the cached value if
\* it is less than 1800 s old and else 3500.0, and neither raises, whatever the
\* class of the failure.
C27_FailedReadFallsBack ==
    \A k \in 1..Len(calls) :
        ReadFailed(calls[k]) =>
            /\ ~calls[k].raised
            /\ calls[k].kind = "gas" =>
                   calls[k].value = CachedOrDefault(calls[k], gas_stale_after, fallback_gas_price)
            /\ calls[k].kind = "eth" =>
                   calls[k].value = CachedOrDefault(calls[k], eth_stale_after, fallback_eth_price)

\* the tokens with a USD price: the stablecoins and the reference asset
PricedInUsd == {"USDC", "USDT", "WETH"}

\* C28: when the output token is neither a stablecoin nor WETH,
\* _check_arbitrage_direction takes the gross USD profit as 0 whatever the input
\* token is: no USD figure is derived from the profit in output tokens.
C28_AbstainsWithoutUsdPrice ==
    \A k \in 1..Len(calls) :
        (calls[k].done /\ calls[k].args.token_out \notin PricedInUsd) =>
            gross_profit_usd(calls[k].args, calls[k].market) = 0

\* C29: a failure inside a tick never ends the scan loop. Whatever exception a
\* pair's scan raises, the loop goes to its sleep and from the sleep starts the
\* next tick; once started, the loop ends only on the shutdown signal.
C29_FailureInTickNeverEndsLoop ==
    [][/\ (scan.at = "pairs" /\ scan'.raised # "none") =>
              (scan'.at = "sleep" /\ scan'.exit = "running")
       /\ (scan.at = "sleep" /\ scan'.at # "sleep") =>
              \/ /\ scan'.at = "pairs"
                 /\ scan'.next = 1
                 /\ scan'.scan_count = scan.scan_count + 1
                 /\ now' = now + scan_interval
              \/ scan'.exit = "shutdown"
       /\ (scan.at # "startup" /\ scan.exit = "running" /\ scan'.exit # "running") =>
              scan'.exit = "shutdown"]_vars

\* a pair's scan raised in one tick and the loop is scanning in a later tick
C29_Witness ==
    /\ scan.at = "pairs"
    /\ scan.exit = "running"
    /\ scan.raised_in >= 1
    /\ scan.scan_count > scan.raised_in

\* the awaits of a notification, and the log lines of a delivery that failed
NotifyAwaits == {"notify_execution", "notify_reverted", "notify_error", "notify_execute_error"}
FailedDeliveryLines == {"telegram_api_error", "telegram_timeout", "telegram_failed"}

LogAfter(t) == IF pc'[t] = "idle" THEN last'.log ELSE log'[t]

\* the step is the return of task t's awaited notification, whose delivery failed
DeliveryFailed(t) ==
    /\ pc[t] \in NotifyAwaits
    /\ pc'[t] # pc[t]
    /\ LogAfter(t)[Len(log[t]) + 1] \in FailedDeliveryLines

\* C30: notification delivery is best-effort. A notifier that is disabled, times
\* out or gets an API error returns false without raising, and when a delivery
\* fails evaluate_and_execute goes on as after a delivered alert: a confirmed
\* execution returns success, a reverted one failed, a refused one None, and the
\* statistics and the circuit breaker change only as the execution itself
\* requires.
C30_NotificationBestEffort ==
    [][/\ \A enabled \in BOOLEAN, delivery \in TelegramDeliveries :
              (~enabled \/ delivery # "200") =>
                  /\ send_message(enabled, delivery).raised = "no"
                  /\ send_message(enabled, delivery).value = FALSE
       /\ \A t \in Tasks : DeliveryFailed(t) =>
              /\ (pc[t] = "notify_execution") =>
                     /\ pc'[t] = "idle"
                     /\ last'.result = "success"
                     /\ stats' = [stats EXCEPT !.passed_validation = @ + 1]
                     /\ cb' = cb
              /\ (pc[t] = "notify_reverted") =>
                     /\ pc'[t] = "idle"
                     /\ last'.result = "failed"
                     /\ stats' = [stats EXCEPT !.passed_validation = @ + 1]
                     /\ cb' = cb
              /\ (pc[t] = "notify_error") =>
                     /\ pc'[t] = "idle"
                     /\ last'.result = "None"
                     /\ stats' = stats
                     /\ cb' = cb
              /\ (pc[t] = "notify_execute_error") =>
                     /\ pc'[t] = "notify_error"
                     /\ stats' = stats
                     /\ cb' = record_failure(cb, now)]_vars

\* a confirmed execution has returned success after its notification timed out
C30_Witness ==
    /\ last.task \in Tasks
    /\ last.result = "success"
    /\ Mentions(last.log, {"telegram_timeout"})
    /\ stats.successful >= 1

\* what the claim requires of an opportunity
ValidOpportunity(opp) ==
    /\ required_fields \subseteq opp.fields
    /\ opp.profit_pct >= PROFIT_THRESHOLD_PCT
    /\ opp.token_in \in tokens
    /\ opp.token_out \in tokens
    /\ opp.buy_dex \in dexes
    /\ opp.sell_dex \in dexes

\* the call's log holds "validate" with no exception right after it
PassedValidation(l) ==
    \E i \in 1..Len(l) :
        /\ l[i] = "validate"
        /\ (i < Len(l) => l[i + 1] \notin Exceptions)

\* C31: an opportunity passes _validate_opportunity if and only if all seven
\* required fields are present, profit_pct is at least the threshold (equality
\* passes), both tokens and both venues are in the catalogues; one that fails
\* any of these reaches neither the slippage check nor the simulation.
C31_ValidatedIffWellFormed ==
    (last.task = "loop") =>
        /\ PassedValidation(last.log) <=> ValidOpportunity(calls[1].opp)
        /\ ~ValidOpportunity(calls[1].opp) =>
               ~Mentions(last.log, {"check_slippage", "simulate"})
        /\ ValidOpportunity(calls[1].opp) => Mentions(last.log, {"check_slippage"})

\* an opportunity exactly at the threshold has passed and been simulated
C31_Witness ==
    /\ last.task = "loop"
    /\ calls[1].opp.profit_pct = PROFIT_THRESHOLD_PCT
    /\ ValidOpportunity(calls[1].opp)
    /\ last.result = "simulated"

\* the venue names of the catalogue, as keys
VenueKeys == {dex_key(dex_list[d]) : d \in 1..Len(dex_list)}

CountsExecution == stats'.executed = stats.executed + 1

\* the breaker the call works on: a call that enters in this step has first
\* asked is_tripped, which resets the breaker once the cooldown is over
BreakerAtEntry == IF pc["loop"] = "idle" THEN is_tripped(cb, now).cb ELSE cb

\* C33: a receipt whose status is not success yields the result 'failed', records
\* exactly one circuit-breaker failure, increments executed and failed and adds
\* nothing to total_profit_usd; a success receipt increments executed and
\* successful and adds the simulated profit and the gas cost to the totals.
C33_ReceiptAccounting ==
    [][CountsExecution =>
          \/ /\ stats'.failed = stats.failed + 1
             /\ stats'.successful = stats.successful
             /\ stats'.total_profit_usd = stats.total_profit_usd
             /\ stats'.total_gas_spent_usd = stats.total_gas_spent_usd
             /\ Count(LoopLogAfter, "record_failure") = 1
             /\ cb' = record_failure(BreakerAtEntry, now)
             /\ IF pc'["loop"] = "idle" THEN last'.result = "failed"
                ELSE pc'["loop"] = "notify_reverted"
          \/ /\ stats'.successful = stats.successful + 1
             /\ stats'.failed = stats.failed
             /\ stats'.total_profit_usd - stats.total_profit_usd \in SimulatedProfits
             /\ pc["loop"] = "send_transaction" =>
                    stats'.total_profit_usd = stats.total_profit_usd + frame["loop"][1]
             /\ stats'.total_gas_spent_usd - stats.total_gas_spent_usd \in GasCostsUsd
             /\ Count(LoopLogAfter, "record_failure") = 0
             /\ IF pc'["loop"] = "idle" THEN last'.result = "success"
                ELSE pc'["loop"] = "notify_execution"]_vars

\* the first submitted transaction reverted and the call has returned 'failed'
C33_Witness ==
    /\ last.task = "loop"
    /\ last.result = "failed"
    /\ stats.executed = 1
    /\ stats.failed = 1
    /\ stats.successful = 0
    /\ stats.total_profit_usd = 0
    /\ Len(cb.failures) = 1

\* the failures of the list that are inside the sliding window now
StillInWindow == SelectSeq(cb.failures, LAMBDA f : f > now - time_window)

\* C34: the status get_status / get_statistics report agrees with is_tripped at
\* every moment: once the cooldown has elapsed past the trip time the report is
\* 'operational' with zero failures, and the reported failure count never
\* includes a failure older than the sliding window.
C34_StatusAgreesWithIsTripped ==
    LET report == get_status(cb, now)
    IN  /\ (report.status = "tripped") <=> is_tripped(cb, now).ret
        /\ (cb.tripped_at # None /\ now - cb.tripped_at[1] >= cooldown) =>
               (report.status = "operational" /\ report.failures = 0)
        /\ report.failures <= Len(StillInWindow)

\* the swap gas of a venue family
SwapGas(dex_type) == IF dex_type = "concentrated" THEN CONCENTRATED_SWAP_GAS ELSE V2_SWAP_GAS

UsdPrice(symbol, market) == IF symbol = "WETH" THEN market.eth_price_usd ELSE 1

\* C36: the flashloan fee charged is 9 basis points of the borrowed input amount,
\* valued in USD at the input token's price (1 for a stablecoin, the ETH price
\* for WETH), whichever token is the output token.
C36_FlashloanFeeOnInputAmount ==
    (calls[1].done /\ calls[1].args.token_in \in PricedInUsd) =>
        LET a == calls[1].args
            market == calls[1].market
        IN  flashloan_fee_usd(a, market)
                = a.amount * AAVE_FLASHLOAN_FEE_BPS * UsdPrice(a.token_in, market)


\* the cache period of the object a call was made on
CachePeriod(c) ==
    IF c.kind = "gas" THEN gas_cache_duration
    ELSE IF c.kind = "eth" THEN eth_cache_duration ELSE CACHE_DURATION

\* the call came within the cache period of the fetch that filled the cache
WithinCachePeriod(c) == c.cache # None /\ c.at - c.cache.timestamp < CachePeriod(c)

\* what the cache held when the call was made, as the call returns it
CachedAnswer(c) == IF c.kind = "oracle" THEN c.cache ELSE c.cache.value

\* the Chainlink round the oracle's call would use
ChainlinkAnswer(c) ==
    IF c.kind = "oracle" /\ fetcher.network_mode = "mainnet"
    THEN _fetch_chainlink_price(c.chainlink) ELSE None

\* the fresh read of the call answered a usable value
ReadAnswered(c) ==
    \/ c.read.raises = "no" /\ (c.kind = "gas" => c.read.value >= 0)
    \/ ChainlinkAnswer(c) # None

\* the value of the fresh read, in the form the call returns
ReadAnswer(c) ==
    IF c.kind = "gas" THEN Frac(c.read.value, 1000000000)
    ELSE IF c.kind = "eth" THEN c.read.value
    ELSE IF ChainlinkAnswer(c) # None
    THEN PriceFeed(ChainlinkAnswer(c), 8, c.at, "chainlink")
    ELSE PriceFeed(c.read.value, 18, c.at, "dex")

\* C37: a call of get_gas_price_gwei, ETHPriceFetcher.get_eth_price_usd or
\* ChainlinkPriceOracle.get_eth_price_usd made less than cache_duration seconds
\* after the fetch that filled the cache returns the cached value and issues no
\* read; a call made after expiry issues a read and, when the read answers,
\* returns its value and caches it at the time of the call.
C37_CachedWithinPeriod ==
    \A k \in 1..Len(calls) :
        LET c == calls[k]
        IN  /\ WithinCachePeriod(c) =>
                   /\ c.reads = 0
                   /\ ~c.raised
                   /\ c.value = CachedAnswer(c)
                   /\ fetcher.cache = c.cache
            /\ ~WithinCachePeriod(c) =>
                   /\ c.reads >= 1
                   /\ ReadAnswered(c) =>
                          /\ ~c.raised
                          /\ c.value = ReadAnswer(c)
                          /\ fetcher.cache = IF c.kind = "oracle" THEN ReadAnswer(c)
                                             ELSE CacheEntry(ReadAnswer(c), c.at)

\* the oracle answered from a cache that was filled on an earlier tick, the
\* offered reads being ones that would have answered another price or raised
C37_Witness ==
    \E k \in 1..Len(calls) :
        /\ calls[k].kind = "oracle"
        /\ WithinCachePeriod(calls[k])
        /\ calls[k].at > calls[k].cache.timestamp
        /\ calls[k].cache.source = "chainlink"
        /\ calls[k].read.raises = "no"
        /\ calls[k].reads = 0

\* a call at the very second the cache turns cache_duration old reads afresh
C37_WitnessExpiry ==
    \E k \in 1..Len(calls) :
        /\ calls[k].kind = "eth"
        /\ calls[k].cache # None
        /\ calls[k].at - calls[k].cache.timestamp = eth_cache_duration
        /\ calls[k].read.raises = "no"
        /\ calls[k].value # calls[k].cache.value
        /\ calls[k].reads = 1


\* the recorded calls that are no older than the period at the limiter's clock
CallsInWindow == SelectSeq(limiter.calls, LAMBDA t : t >= limiter.time - limiter.period)

\* the times since the limiter's clock was `period` seconds younger, that
\* second excluded, at which a call was recorded
GrantsInOpenWindow == SelectSeq(limiter.granted, LAMBDA t : t > limiter.time - limiter.period)

\* C38: whatever the interleaving of acquire() calls, the calls recorded within
\* the last `period` seconds never number more than max_calls, a waiter woken
\* at the second the oldest call turns `period` old included.
C38_AtMostMaxCallsInWindow == Len(CallsInWindow) <= limiter.max_calls

\* the same, counting every acquisition granted in a window that excludes the
\* second at which the oldest call turned `period` old
C38_AtMostMaxCallsGranted == Len(GrantsInOpenWindow) <= limiter.max_calls

\* away from that second the limit is kept: a step taken while no recorded call
\* is exactly `period` old leaves at most max_calls in the window if it found so
C38_LimitKeptOffBoundary ==
    [][(/\ Len(CallsInWindow) <= limiter.max_calls
        /\ \A k \in 1..Len(limiter.calls) :
               limiter.calls[k] # limiter'.time - limiter.period)
       => Len(CallsInWindow)' <= limiter.max_calls]_vars


\* no call of evaluate_and_execute is in flight
BetweenEvaluations == \A t \in Tasks : pc[t] = "idle"

\* C39: between evaluations the breaker's failure list holds at most
\* max_failures timestamps.
C39_FailureListBounded ==
    BetweenEvaluations => Len(cb.failures) <= max_failures

\* C39, second half: while the breaker stays tripped no failure is added to the
\* list and the trip time stays where it was.
C39_TripHeldUntilReset ==
    [][(cb.tripped_at # None /\ cb'.tripped_at # None)
       => cb'.tripped_at = cb.tripped_at /\ Len(cb'.failures) <= Len(cb.failures)]_vars

\* what the code does keep: the failure that trips the breaker is followed by at
\* most the second record of the same failed call
C39_AtMostOneBeyond == Len(cb.failures) <= max_failures + 1


\* an evaluate_and_execute call has completed and none is in flight
AfterCompletedCall == last.task # "none" /\ BetweenEvaluations

\* successful <= executed <= passed_validation <= total_opportunities_evaluated
CountersOrdered ==
    /\ stats.successful <= stats.executed
    /\ stats.executed <= stats.passed_validation
    /\ stats.passed_validation <= stats.total_opportunities_evaluated

\* C40: after every completed evaluate_and_execute call, executed = successful +
\* failed and successful <= executed <= passed_validation <=
\* total_opportunities_evaluated.
C40_CountersConsistent ==
    AfterCompletedCall =>
        /\ stats.executed = stats.successful + stats.failed
        /\ CountersOrdered

\* the part of C40 the code keeps: the counters are ordered, and executed never
\* exceeds successful + failed
C40_CountersOrdered ==
    AfterCompletedCall =>
        /\ CountersOrdered
        /\ stats.executed <= stats.successful + stats.failed

====
